---- MODULE Spec2Model ----
(***************************************************************************)
(* Model of src/bot.py (PaperTradingBot): the price-aggregation chain with *)
(* its per-token cache, the slippage model and the paper-trading ledger.   *)
(*                                                                         *)
(* Handlers are coroutines.  A handler runs without interruption between   *)
(* two awaits that really suspend (a provider HTTP request, the executor   *)
(* call of save_data, a wait for data_lock); at such an await any other    *)
(* handler may run.  `running` names the task that holds the event loop    *)
(* between two of its own steps; it is 0 while every task is suspended.    *)
(* Python floats are modelled as exact rationals <<num, den>>; None is the *)
(* pair <<0, 0>>.  Trade timestamps are left out of the trade records.     *)
(***************************************************************************)
EXTENDS Integers, Sequences, FiniteSets, TLC

(***************************************************************************)
(* Bounds of the model.                                                    *)
(***************************************************************************)
MaxTasks == 2
MaxTime == 10
MaxMoves == 1

(***************************************************************************)
(* Program constants.                                                      *)
(***************************************************************************)
starting_balance == 20
CacheTTL == 10
FundCap == 20
DefaultFundAmount == 1
DefaultSlippage == 1

(***************************************************************************)
(* Rational arithmetic.                                                    *)
(***************************************************************************)
RECURSIVE GCD(_, _)
GCD(a, b) == IF b = 0 THEN a ELSE GCD(b, a % b)

Abs(x) == IF x < 0 THEN -x ELSE x

Norm(n, d) ==
    LET g == GCD(Abs(n), Abs(d))
        s == IF d < 0 THEN -1 ELSE 1
    IN  <<s * (n \div g), s * (d \div g)>>

R(n, d) == Norm(n, d)

NoneR == <<0, 0>>

Zero == <<0, 1>>

IsNone(x) == x[2] = 0

\* Python truthiness of a float-or-None: None and 0.0 are falsy.
Truthy(x) == x[2] # 0 /\ x[1] # 0

RAdd(x, y) ==
    LET g == GCD(x[2], y[2])
    IN  Norm(x[1] * (y[2] \div g) + y[1] * (x[2] \div g), (x[2] \div g) * y[2])

RNeg(x) == <<-x[1], x[2]>>

RSub(x, y) == RAdd(x, RNeg(y))

RMul(x, y) ==
    LET g1 == GCD(Abs(x[1]), y[2])
        g2 == GCD(Abs(y[1]), x[2])
    IN  Norm((x[1] \div g1) * (y[1] \div g2), (x[2] \div g2) * (y[2] \div g1))

\* y is not zero
RDiv(x, y) == RMul(x, IF y[1] < 0 THEN <<-y[2], -y[1]>> ELSE <<y[2], y[1]>>)

\* x < y for denominators > 0, by continued fractions: no product is formed
RECURSIVE RLt(_, _)
RLt(x, y) ==
    LET qx == x[1] \div x[2]
        qy == y[1] \div y[2]
        rx == x[1] % x[2]
        ry == y[1] % y[2]
    IN  IF qx # qy THEN qx < qy
        ELSE IF ry = 0 THEN FALSE
        ELSE IF rx = 0 THEN TRUE
        ELSE RLt(<<y[2], ry>>, <<x[2], rx>>)

RLe(x, y) == ~RLt(y, x)

(***************************************************************************)
(* Users, tokens, providers.                                               *)
(***************************************************************************)
Users == {1, 2}

Tokens == {"T1", "T2"}

\* the tokens traded in the ledger runs
LedgerTokens == {"T1"}

Tasks == 1..MaxTasks

Providers == {"rate", "rate2", "pump", "dex", "jup", "bird"}

TickSteps == {10}

\* random.uniform(0, slippage_pct / 100): the draw as a fraction of the tolerance
DrawFractions == {Zero, R(1, 1)}

(***************************************************************************)
(* get_token_info: the quote record and the provider chain.                *)
(***************************************************************************)
EmptyInfo ==
    [price |-> NoneR, price_usd |-> NoneR, symbol |-> "None",
     dex_name |-> "None", sol_price |-> Zero]

NoCache == [valid |-> FALSE, timestamp |-> 0, data |-> EmptyInfo]

\* the cache test of get_token_info
CacheHit(cache, token, time) ==
    cache[token].valid /\ time - cache[token].timestamp < CacheTTL

\* index of the pair max(...) returns: the highest liquidity, the first of equals
RECURSIVE MaxLiqIndex(_, _, _)
RECURSIVE MaxLiqIndexLast(_, _, _)
\* the key of max(): a pair without `liquidity`, or with a null `usd`, counts 0
LiqKey(pair) == IF IsNone(pair.liq) THEN Zero ELSE pair.liq

MaxLiqIndexLast(pairs, i, best) ==
    IF i > Len(pairs) THEN best
    ELSE MaxLiqIndexLast(pairs, i + 1,
                         IF RLe(LiqKey(pairs[best]), LiqKey(pairs[i])) THEN i ELSE best)

MaxLiqIndex(pairs, i, best) ==
    IF i > Len(pairs) THEN best
    ELSE MaxLiqIndex(pairs, i + 1,
                     IF RLt(LiqKey(pairs[best]), LiqKey(pairs[i])) THEN i ELSE best)

MaxLiqPair(pairs) == pairs[MaxLiqIndex(pairs, 1, 1)]

\* Each step takes the call state q = [info, sol, src] and a provider response
\* and gives the new call state with `next`: the next request, or "ret_cached"
\* (save to cache and return) or "ret_nocache" (the return inside the chain).
\* src records the provider whose answer was last assigned to info['price'].
RateStep(q, resp) ==
    IF resp.k = "ok"
    THEN [info |-> [q.info EXCEPT !.sol_price = resp.v], sol |-> resp.v,
          src |-> q.src, next |-> "pump"]
    ELSE IF resp.k = "exc"
    THEN [info |-> q.info, sol |-> q.sol, src |-> q.src, next |-> "rate2"]
    ELSE [info |-> q.info, sol |-> q.sol, src |-> q.src, next |-> "pump"]

Rate2Step(q, resp) ==
    IF resp.k = "ok"
    THEN [info |-> [q.info EXCEPT !.sol_price = resp.v], sol |-> resp.v,
          src |-> q.src, next |-> "pump"]
    ELSE [info |-> q.info, sol |-> q.sol, src |-> q.src, next |-> "pump"]

\* (v_sol / 1e9) / (v_token / 1e6)
PumpPrice(v_sol, v_token) ==
    RDiv(RDiv(R(v_sol, 1), R(1000000000, 1)), RDiv(R(v_token, 1), R(1000000, 1)))

PumpStep(q, resp) ==
    IF resp.k \in {"active", "partial_pre", "partial_post"} /\ resp.v_token > 0
    THEN LET price_sol == PumpPrice(resp.v_sol, resp.v_token)
             priced == [q.info EXCEPT
                           !.price = price_sol,
                           !.price_usd = IF Truthy(q.sol) THEN RMul(price_sol, q.sol)
                                         ELSE Zero,
                           !.symbol = resp.symbol]
             named == [priced EXCEPT !.dex_name = "Pump.fun (Bonding Curve)"]
         IN  IF resp.k = "active"
             THEN [info |-> named, sol |-> q.sol, src |-> "pump", next |-> "ret_nocache"]
             ELSE IF resp.k = "partial_post"
             THEN [info |-> named, sol |-> q.sol, src |-> "pump", next |-> "dex"]
             ELSE [info |-> priced, sol |-> q.sol, src |-> "pump", next |-> "dex"]
    ELSE [info |-> q.info, sol |-> q.sol, src |-> q.src, next |-> "dex"]

\* a chain that ends after the DEX aggregator, whatever it gave
AfterDexReturns(info) == "ret_cached"

AfterDex(info) == IF ~Truthy(info.price) THEN "jup" ELSE "ret_cached"

DexStep(q, resp) ==
    IF resp.k \in {"ok", "partial"} /\ Len(resp.pairs) > 0
    THEN LET pair == MaxLiqPair(resp.pairs)
             priced == [q.info EXCEPT
                           !.symbol = pair.symbol,
                           !.price_usd = pair.priceUsd,
                           !.price = IF RLt(Zero, q.sol)
                                     THEN RDiv(pair.priceUsd, q.sol) ELSE @]
             named == [priced EXCEPT !.dex_name = pair.dexId]
             info == IF resp.k = "ok" THEN named ELSE priced
         IN  [info |-> info, sol |-> q.sol,
              src |-> IF RLt(Zero, q.sol) THEN "dex" ELSE q.src, next |-> AfterDex(info)]
    ELSE [info |-> q.info, sol |-> q.sol, src |-> q.src, next |-> AfterDex(q.info)]

AfterJupAlways(info) == "bird"

AfterJup(info) == IF ~Truthy(info.price) THEN "bird" ELSE "ret_cached"

UsdOnlyStep(q, resp, name) ==
    IF resp.k = "ok"
    THEN [q.info EXCEPT
             !.price_usd = resp.v,
             !.price = IF RLt(Zero, q.sol) THEN RDiv(resp.v, q.sol) ELSE @,
             !.dex_name = name]
    ELSE q.info

UsdOnlySrc(q, resp, provider) ==
    IF resp.k = "ok" /\ RLt(Zero, q.sol) THEN provider ELSE q.src

JupStep(q, resp) ==
    LET info == UsdOnlyStep(q, resp, "Jupiter Aggregated")
    IN  [info |-> info, sol |-> q.sol, src |-> UsdOnlySrc(q, resp, "jup"),
         next |-> AfterJup(info)]

BirdStep(q, resp) ==
    [info |-> UsdOnlyStep(q, resp, "Birdeye"), sol |-> q.sol,
     src |-> UsdOnlySrc(q, resp, "bird"), next |-> "ret_cached"]

(***************************************************************************)
(* apply_slippage.                                                         *)
(***************************************************************************)
\* settings.get('slippage', 1.0)
SlippagePct(setting) == IF IsNone(setting) THEN R(DefaultSlippage, 1) ELSE setting

\* a slippage that moves the price the other way
apply_slippage_swapped(price, is_buy, setting, frac) ==
    LET impact == RMul(frac, RDiv(SlippagePct(setting), R(100, 1)))
        exec_price == IF is_buy THEN RMul(price, RSub(R(1, 1), impact))
                      ELSE RMul(price, RAdd(R(1, 1), impact))
    IN  <<exec_price, RMul(impact, R(100, 1))>>

\* frac is the position of random.uniform's draw inside [0, slippage_pct / 100]
apply_slippage(price, is_buy, setting, frac) ==
    LET impact == RMul(frac, RDiv(SlippagePct(setting), R(100, 1)))
        exec_price == IF is_buy THEN RMul(price, RAdd(R(1, 1), impact))
                      ELSE RMul(price, RSub(R(1, 1), impact))
    IN  <<exec_price, RMul(impact, R(100, 1))>>

(***************************************************************************)
(* The ledger: portfolios, positions, trades.                              *)
(***************************************************************************)
EmptyPositions == [k \in {} |-> 0]

FreshPortfolio ==
    [balance |-> R(starting_balance, 1), positions |-> EmptyPositions, history |-> <<>>]

\* the view of a user who has no portfolio
Absent == [balance |-> NoneR, positions |-> EmptyPositions, history |-> <<>>]

DustThreshold == R(1, 10000)

Held(pf, token) == token \in DOMAIN pf.positions

SetPosition(positions, token, pos) ==
    [k \in DOMAIN positions \cup {token} |-> IF k = token THEN pos ELSE positions[k]]

DelPosition(positions, token) ==
    [k \in DOMAIN positions \ {token} |-> positions[k]]

BuyTrade(token, tokens, exec_price, amount, dex) ==
    [type |-> "BUY", token |-> token, amount |-> tokens, price |-> exec_price,
     value_sol |-> amount, profit |-> NoneR, dex |-> dex]

SellTrade(token, amount, exec_price, sol_amount, profit) ==
    [type |-> "SELL", token |-> token, amount |-> amount, price |-> exec_price,
     value_sol |-> sol_amount, profit |-> profit, dex |-> "absent"]

\* sol_amount > portfolio['balance']
InsufficientBalance(pf, amount) == RLt(pf.balance, amount)

WeightedAvg(old_tokens, old_avg, tokens, exec_price) ==
    RDiv(RAdd(RMul(old_tokens, old_avg), RMul(tokens, exec_price)),
         RAdd(old_tokens, tokens))

\* a buy that would debit the balance before it looks at the price of the quote
BuyApplyDebitFirst(pf, token, amount, info, setting, frac, dex) ==
    IF ~Truthy(info.price)
    THEN [pf |-> [pf EXCEPT !.balance = RSub(pf.balance, amount)], res |-> "noquote"]
    ELSE LET exec_price == apply_slippage(info.price, TRUE, setting, frac)[1]
             tokens == RDiv(amount, exec_price)
             debited == [pf EXCEPT !.balance = RSub(pf.balance, amount)]
         IN  IF Held(pf, token) /\ RAdd(pf.positions[token].amount, tokens) = Zero
             THEN [pf |-> debited, res |-> "crash"]
             ELSE LET pos == IF Held(pf, token)
                             THEN [amount |-> RAdd(pf.positions[token].amount, tokens),
                                   avg_price |-> WeightedAvg(pf.positions[token].amount,
                                                             pf.positions[token].avg_price,
                                                             tokens, exec_price),
                                   symbol |-> info.symbol]
                             ELSE [amount |-> tokens, avg_price |-> exec_price,
                                   symbol |-> info.symbol]
                  IN  [pf |-> [debited EXCEPT
                                  !.positions = SetPosition(pf.positions, token, pos),
                                  !.history = Append(pf.history,
                                      BuyTrade(token, tokens, exec_price, amount, dex))],
                       res |-> "ok"]

\* buy and quick_buy_callback after get_token_info has returned: the result is
\* the portfolio object afterwards and the outcome.  The balance is debited
\* before new_avg is computed, so a division by zero leaves the debit behind.
BuyApply(pf, token, amount, info, setting, frac, dex) ==
    IF ~Truthy(info.price) THEN [pf |-> pf, res |-> "noquote"]
    ELSE LET exec_price == apply_slippage(info.price, TRUE, setting, frac)[1]
             tokens == RDiv(amount, exec_price)
             debited == [pf EXCEPT !.balance = RSub(pf.balance, amount)]
         IN  IF Held(pf, token) /\ RAdd(pf.positions[token].amount, tokens) = Zero
             THEN [pf |-> debited, res |-> "crash"]
             ELSE LET pos == IF Held(pf, token)
                             THEN [amount |-> RAdd(pf.positions[token].amount, tokens),
                                   avg_price |-> WeightedAvg(pf.positions[token].amount,
                                                             pf.positions[token].avg_price,
                                                             tokens, exec_price),
                                   symbol |-> info.symbol]
                             ELSE [amount |-> tokens, avg_price |-> exec_price,
                                   symbol |-> info.symbol]
                  IN  [pf |-> [debited EXCEPT
                                  !.positions = SetPosition(pf.positions, token, pos),
                                  !.history = Append(pf.history,
                                      BuyTrade(token, tokens, exec_price, amount, dex))],
                       res |-> "ok"]

\* handle_position_actions, posbuy: the position is read before the debit and
\* updated in place; there is no branch for a token that is not held.
PosBuyApply(pf, token, amount, info, setting, frac) ==
    IF ~Truthy(info.price) THEN [pf |-> pf, res |-> "noquote"]
    ELSE LET exec_price == apply_slippage(info.price, TRUE, setting, frac)[1]
             tokens == RDiv(amount, exec_price)
         IN  IF ~Held(pf, token) \/ RAdd(pf.positions[token].amount, tokens) = Zero
             THEN [pf |-> pf, res |-> "crash"]
             ELSE LET old == pf.positions[token]
                      pos == [old EXCEPT
                                 !.amount = RAdd(old.amount, tokens),
                                 !.avg_price = WeightedAvg(old.amount, old.avg_price,
                                                           tokens, exec_price)]
                  IN  [pf |-> [pf EXCEPT
                                  !.balance = RSub(pf.balance, amount),
                                  !.positions = SetPosition(pf.positions, token, pos),
                                  !.history = Append(pf.history,
                                      BuyTrade(token, tokens, exec_price, amount, "absent"))],
                       res |-> "ok"]

\* sell, up to get_token_info: the amount to sell, or the refusal
SellCheck(pf, token, sel, arg) ==
    IF ~Held(pf, token) THEN [res |-> "nopos", amount |-> NoneR]
    ELSE LET amount == IF sel = "all" THEN pf.positions[token].amount ELSE arg
         IN  IF RLt(pf.positions[token].amount, amount)
             THEN [res |-> "insufficient_holdings", amount |-> amount]
             ELSE [res |-> "ok", amount |-> amount]

\* the reduction of a position and its removal below the threshold
\* the reduction of a position that keeps the entry whatever is left
ReducePositionKeep(positions, token, amount) ==
    [positions EXCEPT ![token].amount = RSub(positions[token].amount, amount)]

\* a sell that writes the position anew, without the symbol it had
ReducePositionRebuilt(positions, token, amount) ==
    LET left == RSub(positions[token].amount, amount)
    IN  IF RLt(left, DustThreshold) THEN DelPosition(positions, token)
        ELSE [positions EXCEPT ![token] =
                 [amount |-> left, avg_price |-> @.avg_price, symbol |-> "Unknown"]]

ReducePosition(positions, token, amount) ==
    LET left == RSub(positions[token].amount, amount)
    IN  IF RLt(left, DustThreshold) THEN DelPosition(positions, token)
        ELSE [positions EXCEPT ![token].amount = left]

\* sell after get_token_info has returned
SellApply(pf, token, amount, info, setting, frac) ==
    IF ~Truthy(info.price) THEN [pf |-> pf, res |-> "noquote"]
    ELSE IF ~Held(pf, token) \/ pf.positions[token].avg_price = Zero
    THEN [pf |-> pf, res |-> "crash"]
    ELSE LET exec_price == apply_slippage(info.price, FALSE, setting, frac)[1]
             sol_amount == RMul(amount, exec_price)
             profit == RMul(RSub(exec_price, pf.positions[token].avg_price), amount)
         IN  [pf |-> [pf EXCEPT
                         !.balance = RAdd(pf.balance, sol_amount),
                         !.positions = ReducePosition(pf.positions, token, amount),
                         !.history = Append(pf.history,
                             SellTrade(token, amount, exec_price, sol_amount, profit))],
              res |-> "ok"]

\* pos['amount'] * (percentage / 100)
PercentAmount(held, percentage) == RMul(held, RDiv(R(percentage, 1), R(100, 1)))

\* handle_position_actions, possell, after get_token_info has returned:
\* avg_price is read through the reference `pos` taken before the await, and
\* the balance is credited before the position is looked up again.
PosSellApply(pf, token, amount, pos_avg, info, setting, frac) ==
    IF ~Truthy(info.price) THEN [pf |-> pf, res |-> "noquote"]
    ELSE IF pos_avg = Zero THEN [pf |-> pf, res |-> "crash"]
    ELSE LET exec_price == apply_slippage(info.price, FALSE, setting, frac)[1]
             sol_amount == RMul(amount, exec_price)
             profit == RMul(RSub(exec_price, pos_avg), amount)
             credited == [pf EXCEPT !.balance = RAdd(pf.balance, sol_amount)]
         IN  IF ~Held(pf, token) THEN [pf |-> credited, res |-> "crash"]
             ELSE [pf |-> [credited EXCEPT
                              !.positions = ReducePosition(pf.positions, token, amount),
                              !.history = Append(pf.history,
                                  SellTrade(token, amount, exec_price, sol_amount, profit))],
                   res |-> "ok"]

\* a fund that credits any amount
FundApplyNoCap(pf, amount) ==
    [pf |-> [pf EXCEPT !.balance = RAdd(pf.balance, amount)], res |-> "ok"]

\* fund, once the amount is known
FundApply(pf, amount) ==
    IF RLt(R(FundCap, 1), amount) THEN [pf |-> pf, res |-> "over_cap"]
    ELSE [pf |-> [pf EXCEPT !.balance = RAdd(pf.balance, amount)], res |-> "ok"]

(***************************************************************************)
(* The environment: what each provider answers.                            *)
(***************************************************************************)
Fail == [k |-> "fail", v |-> Zero]

Usd(v) == [k |-> "ok", v |-> v]

PumpFail == [k |-> "fail", v_sol |-> 0, v_token |-> 0, symbol |-> "None"]

Pump(k) == [k |-> k, v_sol |-> 1000000000, v_token |-> 1000000000, symbol |-> "PUMP"]

Pair(priceUsd, liq, dexId) ==
    [priceUsd |-> priceUsd, liq |-> liq, dexId |-> dexId, symbol |-> "TOK"]

DexFail == [k |-> "fail", pairs |-> <<>>]

Dex(k, pairs) == [k |-> k, pairs |-> pairs]

SolRate == R(100, 1)

\* the DEX aggregator alone answers, with one pair at priceUsd
WDex(priceUsd) ==
    [rate |-> Usd(SolRate), rate2 |-> Fail, pump |-> PumpFail,
     dex |-> Dex("ok", <<Pair(priceUsd, R(5000, 1), "raydium")>>),
     jup |-> Fail, bird |-> Fail]

WNone ==
    [rate |-> [k |-> "exc", v |-> Zero], rate2 |-> Fail, pump |-> PumpFail,
     dex |-> DexFail, jup |-> Fail, bird |-> Fail]

WPump == [WDex(R(1, 10)) EXCEPT !.pump = Pump("active")]

LedgerWorlds == {WDex(R(1, 10)), WDex(R(1, 5)), WNone}

(***************************************************************************)
(* State.                                                                  *)
(***************************************************************************)
VARIABLES
    portfolios,     \* user id -> the portfolio object of the user, 0 if none
    objs,           \* the portfolio dicts ever created, by object identity
    user_settings,  \* user id -> the slippage setting, None if none
    price_cache,    \* token -> cache entry
    now,            \* time.time(), in seconds
    world,          \* what the providers answer at present
    moves,          \* number of market changes so far
    tasks,          \* the handler invocations
    running,        \* the task that holds the event loop, or 0
    data_lock,      \* the task that holds data_lock, or 0
    file,           \* the file paper_trading_data.json
    tmp,            \* the file paper_trading_data.json.tmp
    watchlists,     \* user id -> the tokens the user watches, in order
    user_stats,     \* user id -> number of commands log_activity counted
    loaded          \* the dictionaries as load_data left them at construction

vars ==
    <<portfolios, objs, user_settings, price_cache, now, world, moves, tasks,
      running, data_lock, file, tmp, watchlists, user_stats, loaded>>

LiveOf(pfs, os, u) == IF pfs[u] = 0 THEN Absent ELSE os[pfs[u]]

\* portfolios.get(u), as a value
Live(u) == LiveOf(portfolios, objs, u)

NewTask ==
    [kind |-> "none", user |-> 0, token |-> "none", sel |-> "none", arg |-> NoneR,
     pc |-> "new", pf |-> 0, amount |-> NoneR, after |-> "none",
     q |-> [info |-> EmptyInfo, sol |-> Zero, src |-> "none"],
     q_start |-> -1, q_reqs |-> {}, q_hit |-> FALSE, q_after |-> FALSE,
     info |-> EmptyInfo, frac |-> NoneR, res |-> "none",
     live |-> TRUE, pre |-> Absent, post |-> Absent,
     pos_avg |-> NoneR, pos_fresh |-> FALSE, saved |-> "none",
     todo |-> {}, infos |-> [k \in Tokens |-> EmptyInfo],
     equity |-> [u \in Users |-> NoneR], dumped |-> <<>>]

\* a position bought with 5 SOL at 0.001 and no slippage
Holding ==
    [balance |-> R(15, 1),
     positions |-> SetPosition(EmptyPositions, "T1",
                     [amount |-> R(5000, 1), avg_price |-> R(1, 1000), symbol |-> "TOK"]),
     history |-> <<BuyTrade("T1", R(5000, 1), R(1, 1000), R(5, 1), "absent")>>]

\* the ledgers load_data may find in the file
InitLedgers ==
    { [portfolios |-> [u \in Users |-> 0], objs |-> <<>>],
      [portfolios |-> [u \in Users |-> IF u = 1 THEN 1 ELSE 0],
       objs |-> <<FreshPortfolio>>],
      [portfolios |-> [u \in Users |-> IF u = 1 THEN 1 ELSE 0], objs |-> <<Holding>>],
      [portfolios |-> [u \in Users |-> u], objs |-> <<Holding, FreshPortfolio>>] }

\* json.dump writes the int key of a user as a string
UserKey(u) == <<"1", "2">>[u]

\* int(k)
KeyUser(k) == CHOOSE u \in Users : UserKey(u) = k

\* a float or None as json.dump writes it: a number or null
JsonFloat(x) == IF IsNone(x) THEN [null |-> TRUE, num |-> Zero] ELSE [null |-> FALSE, num |-> x]

\* the value json.load gives for that number or null
PyFloat(v) == IF v.null THEN NoneR ELSE v.num

\* a portfolio as written into the document
DumpPortfolio(pf) ==
    [balance |-> JsonFloat(pf.balance),
     positions |-> [k \in DOMAIN pf.positions |->
                      [pf.positions[k] EXCEPT !.amount = JsonFloat(@),
                                              !.avg_price = JsonFloat(@)]],
     history |-> [i \in DOMAIN pf.history |->
                    [pf.history[i] EXCEPT !.amount = JsonFloat(@), !.price = JsonFloat(@),
                                          !.value_sol = JsonFloat(@),
                                          !.profit = JsonFloat(@)]]]

\* a value of data['portfolios'] as json.load returns it
LoadPortfolio(v) ==
    [balance |-> PyFloat(v.balance),
     positions |-> [k \in DOMAIN v.positions |->
                      [v.positions[k] EXCEPT !.amount = PyFloat(@),
                                             !.avg_price = PyFloat(@)]],
     history |-> [i \in DOMAIN v.history |->
                    [v.history[i] EXCEPT !.amount = PyFloat(@), !.price = PyFloat(@),
                                         !.value_sol = PyFloat(@),
                                         !.profit = PyFloat(@)]]]

\* the four collections of the document
Collections == {"portfolios", "watchlists", "user_settings", "user_stats"}

\* the document save_data writes: the users that have an entry, by string
\* key.  A user without a watchlist and a user whose watchlist is empty are
\* not told apart, and the statistics of a user are the number of commands
\* counted.
Snapshot(pfs, os, settings, watch, stats) ==
    [portfolios |-> [k \in {UserKey(u) : u \in {x \in Users : pfs[x] # 0}} |->
                       DumpPortfolio(os[pfs[KeyUser(k)]])],
     watchlists |-> [k \in {UserKey(u) : u \in {x \in Users : watch[x] # <<>>}} |->
                       watch[KeyUser(k)]],
     user_settings |-> [k \in {UserKey(u) : u \in {x \in Users : ~IsNone(settings[x])}} |->
                          [slippage |-> JsonFloat(settings[KeyUser(k)])]],
     user_stats |-> [k \in {UserKey(u) : u \in {x \in Users : stats[x] # 0}} |->
                       [commands |-> stats[KeyUser(k)]]]]

\* the module-level dictionaries as the interpreter creates them: all empty
NoData ==
    [portfolios |-> [u \in Users |-> Absent],
     watchlists |-> [u \in Users |-> <<>>],
     user_settings |-> [u \in Users |-> NoneR],
     user_stats |-> [u \in Users |-> 0]]

\* a file: absent, cut short in the middle of its text, or a whole document
NoFile ==
    [state |-> "missing",
     doc |-> Snapshot([u \in Users |-> 0], <<>>, NoData.user_settings,
                      NoData.watchlists, NoData.user_stats)]

PartFile == [NoFile EXCEPT !.state = "partial"]

Written(doc) == [state |-> "complete", doc |-> doc]

\* load_data that leaves the keys of the document as they are: no int key is
\* found afterwards
LoadDataStringKeys(f) == NoData

\* the body of the with block of load_data: a collection the document has
\* replaces the dictionary, by int key; one it lacks leaves the dictionary
\* as it is, which at construction is empty
LoadDoc(data) ==
    LET In(c, u) == c \in DOMAIN data /\ \E k \in DOMAIN data[c] : KeyUser(k) = u
    IN  [portfolios |-> [u \in Users |->
                           IF In("portfolios", u)
                           THEN LoadPortfolio(data.portfolios[UserKey(u)])
                           ELSE Absent],
         watchlists |-> [u \in Users |->
                           IF In("watchlists", u) THEN data.watchlists[UserKey(u)]
                           ELSE <<>>],
         user_settings |-> [u \in Users |->
                              IF In("user_settings", u)
                              THEN PyFloat(data.user_settings[UserKey(u)].slippage)
                              ELSE NoneR],
         user_stats |-> [u \in Users |->
                           IF In("user_stats", u) THEN data.user_stats[UserKey(u)].commands
                           ELSE 0]]

\* load_data that reads every collection without asking whether the document
\* has it: the KeyError of an absent one is caught and nothing is loaded
LoadDataAllOrNothing(f) ==
    IF f.state = "complete" /\ DOMAIN f.doc = Collections THEN LoadDoc(f.doc) ELSE NoData

\* load_data: a file that is missing is skipped and one json.load cannot
\* parse raises, which is caught, both leaving the dictionaries empty
LoadData(f) == IF f.state = "complete" THEN LoadDoc(f.doc) ELSE NoData

InitWith(worlds, ledgers) ==
    /\ \E l \in ledgers :
          /\ portfolios = l.portfolios
          /\ objs = l.objs
          /\ file = Written(Snapshot(l.portfolios, l.objs, NoData.user_settings,
                                     NoData.watchlists, NoData.user_stats))
          /\ loaded = LoadData(Written(Snapshot(l.portfolios, l.objs,
                                                NoData.user_settings, NoData.watchlists,
                                                NoData.user_stats)))
    /\ tmp = NoFile
    /\ user_settings = NoData.user_settings
    /\ watchlists = NoData.watchlists
    /\ user_stats = NoData.user_stats
    /\ price_cache = [k \in Tokens |-> NoCache]
    /\ now = 0
    /\ world \in worlds
    /\ moves = 0
    /\ tasks = [t \in Tasks |-> NewTask]
    /\ running = 0
    /\ data_lock = 0

Init == InitWith(LedgerWorlds, InitLedgers)

(***************************************************************************)
(* Scheduling helpers.                                                     *)
(***************************************************************************)
\* a new handler invocation starts when the event loop is free; invocations
\* take the task slots in order
CanStart(t) ==
    /\ running = 0
    /\ tasks[t].pc = "new"
    /\ \A x \in Tasks : x < t => tasks[x].pc # "new"

\* await self.get_token_info(token): served from the cache without suspending,
\* or suspended on the first request of the chain
\* some earlier get_token_info call for the token, begun less than the cache
\* lifetime ago, has already returned
CallReturned(token) ==
    \E x \in Tasks :
        /\ tasks[x].token = token
        /\ tasks[x].q_start >= 0
        /\ tasks[x].pc \in {"apply", "save_wait", "save_io", "done"}
        /\ now - tasks[x].q_start < CacheTTL

BeginQuote(rec, token) ==
    IF CacheHit(price_cache, token, now)
    THEN [rec EXCEPT !.pc = "apply", !.info = price_cache[token].data,
                     !.q_start = now, !.q_hit = TRUE,
                     !.q_after = CallReturned(token)]
    ELSE [rec EXCEPT !.pc = "rate", !.q_start = now, !.q_reqs = {"rate"},
                     !.q_after = CallReturned(token)]

\* a save that goes on to write whoever holds the lock
SaveRecNoLock(rec, after) == [rec EXCEPT !.pc = "save_io", !.after = after]

\* await self.save_data(): the lock is taken at once when it is free
SaveRec(rec, after) ==
    [rec EXCEPT !.pc = IF data_lock = 0 THEN "save_io" ELSE "save_wait",
                !.after = after]

LockAfter(t) == IF data_lock = 0 THEN t ELSE data_lock

Done(rec, res) == [rec EXCEPT !.pc = "done", !.res = res]

RunningAfter(t, rec) == IF rec.pc \in {"apply", "buy2"} THEN t ELSE 0

(***************************************************************************)
(* Handlers, up to their first suspension.                                 *)
(***************************************************************************)
Ledger == <<portfolios, objs>>

Market == <<price_cache, now, world, moves>>

Stored == <<user_settings, loaded, watchlists>>

Config == <<Stored, user_stats>>

\* log_activity: one more command of the user counted
LogActivity(u) == [user_stats EXCEPT ![u] = @ + 1]

\* a creation that hands the one new dict to every user who has a portfolio
CreatePortfolioShared(u) ==
    /\ objs' = Append(objs, FreshPortfolio)
    /\ portfolios' = [x \in Users |->
                         IF x = u \/ portfolios[x] # 0 THEN Len(objs) + 1 ELSE 0]

\* portfolios[user_id] = {balance, positions, history}
CreatePortfolio(u) ==
    /\ objs' = Append(objs, FreshPortfolio)
    /\ portfolios' = [portfolios EXCEPT ![u] = Len(objs) + 1]

\* get_price
Price(t, token) ==
    /\ CanStart(t)
    /\ LET rec == BeginQuote([tasks[t] EXCEPT !.kind = "price", !.token = token], token)
       IN  /\ tasks' = [tasks EXCEPT ![t] = rec]
           /\ running' = RunningAfter(t, rec)
    /\ UNCHANGED <<Ledger, Market, Config, data_lock, file, tmp>>

\* a start that creates the portfolio without asking whether there is one
StartAlways(t, u) ==
    /\ CanStart(t)
    /\ CreatePortfolio(u)
    /\ tasks' = [tasks EXCEPT ![t] =
                    SaveRec([@ EXCEPT !.kind = "start", !.user = u, !.pre = Live(u),
                                      !.res = "ok", !.post = FreshPortfolio], "done")]
    /\ data_lock' = LockAfter(t)
    /\ user_stats' = LogActivity(u)
    /\ UNCHANGED <<Market, Stored, running, file, tmp>>

\* start
Start(t, u) ==
    /\ CanStart(t)
    /\ LET rec == [tasks[t] EXCEPT !.kind = "start", !.user = u, !.pre = Live(u)]
       IN  IF portfolios[u] = 0
           THEN /\ CreatePortfolio(u)
                /\ tasks' = [tasks EXCEPT ![t] =
                                SaveRec([rec EXCEPT !.res = "ok", !.post = FreshPortfolio],
                                        "done")]
                /\ data_lock' = LockAfter(t)
           ELSE /\ tasks' = [tasks EXCEPT ![t] = Done([rec EXCEPT !.post = Live(u)], "exists")]
                /\ UNCHANGED <<Ledger, data_lock>>
    /\ user_stats' = LogActivity(u)
    /\ UNCHANGED <<Market, Stored, running, file, tmp>>

\* buy, up to the save of a lazily created portfolio
Buy(t, u, token, arg) ==
    /\ CanStart(t)
    /\ LET rec == [tasks[t] EXCEPT !.kind = "buy", !.user = u, !.token = token,
                                   !.sel = "amt", !.arg = arg]
       IN  IF portfolios[u] = 0
           THEN /\ CreatePortfolio(u)
                /\ tasks' = [tasks EXCEPT ![t] = SaveRec(rec, "buy2")]
                /\ data_lock' = LockAfter(t)
                /\ UNCHANGED running
           ELSE /\ tasks' = [tasks EXCEPT ![t] = [rec EXCEPT !.pc = "buy2"]]
                /\ running' = t
                /\ UNCHANGED <<Ledger, data_lock>>
    /\ user_stats' = LogActivity(u)
    /\ UNCHANGED <<Market, Stored, file, tmp>>

\* the balance check of the three buy paths and the call of get_token_info
CheckBuy(t, rec) ==
    LET pf == objs[portfolios[rec.user]]
        held == [rec EXCEPT !.pf = portfolios[rec.user], !.amount = rec.arg]
        next == IF InsufficientBalance(pf, rec.arg)
                THEN Done([held EXCEPT !.pre = pf, !.post = pf], "insufficient")
                ELSE BeginQuote(held, rec.token)
    IN  /\ tasks' = [tasks EXCEPT ![t] = next]
        /\ running' = RunningAfter(t, next)

\* buy, from portfolio = portfolios[user_id]
BuyCheck(t) ==
    /\ running = t
    /\ tasks[t].pc = "buy2"
    /\ CheckBuy(t, tasks[t])
    /\ UNCHANGED <<Ledger, Market, Config, data_lock, file, tmp>>

\* quick_buy_callback (qbuy) and handle_position_actions (posbuy)
ButtonBuy(t, kind, u, token, arg) ==
    /\ CanStart(t)
    /\ LET rec == [tasks[t] EXCEPT !.kind = kind, !.user = u, !.token = token,
                                   !.sel = "amt", !.arg = arg]
       IN  IF portfolios[u] = 0
           THEN /\ tasks' = [tasks EXCEPT ![t] = Done(rec, "noportfolio")]
                /\ UNCHANGED running
           ELSE CheckBuy(t, rec)
    /\ user_stats' = IF kind = "qbuy" /\ portfolios[u] = 0 THEN LogActivity(u)
                      ELSE user_stats
    /\ UNCHANGED <<Ledger, Market, Stored, data_lock, file, tmp>>

QuickBuy(t, u, token, arg) == ButtonBuy(t, "qbuy", u, token, arg)

PosBuy(t, u, token, arg) == ButtonBuy(t, "posbuy", u, token, arg)

\* sell
Sell(t, u, token, sel, arg) ==
    /\ CanStart(t)
    /\ LET rec == [tasks[t] EXCEPT !.kind = "sell", !.user = u, !.token = token,
                                   !.sel = sel, !.arg = arg]
       IN  IF portfolios[u] = 0
           THEN /\ tasks' = [tasks EXCEPT ![t] = Done(rec, "noportfolio")]
                /\ UNCHANGED running
           ELSE LET pf == objs[portfolios[u]]
                    chk == SellCheck(pf, token, sel, arg)
                    held == [rec EXCEPT !.pf = portfolios[u], !.amount = chk.amount]
                    next == IF chk.res = "ok" THEN BeginQuote(held, token)
                            ELSE Done([held EXCEPT !.pre = pf, !.post = pf], chk.res)
                IN  /\ tasks' = [tasks EXCEPT ![t] = next]
                    /\ running' = RunningAfter(t, next)
    /\ user_stats' = LogActivity(u)
    /\ UNCHANGED <<Ledger, Market, Stored, data_lock, file, tmp>>

\* handle_position_actions, possell
PosSell(t, u, token, percentage) ==
    /\ CanStart(t)
    /\ LET rec == [tasks[t] EXCEPT !.kind = "possell", !.user = u, !.token = token,
                                   !.sel = "pct", !.arg = R(percentage, 1)]
       IN  IF portfolios[u] = 0
           THEN /\ tasks' = [tasks EXCEPT ![t] = Done(rec, "noportfolio")]
                /\ UNCHANGED running
           ELSE LET pf == objs[portfolios[u]]
                IN  IF ~Held(pf, token)
                    THEN /\ tasks' = [tasks EXCEPT ![t] =
                                Done([rec EXCEPT !.pf = portfolios[u], !.pre = pf,
                                                 !.post = pf], "nopos")]
                         /\ UNCHANGED running
                    ELSE LET held == [rec EXCEPT
                                 !.pf = portfolios[u],
                                 !.amount = PercentAmount(pf.positions[token].amount,
                                                          percentage),
                                 !.pos_avg = pf.positions[token].avg_price,
                                 !.pos_fresh = TRUE]
                             next == BeginQuote(held, token)
                         IN  /\ tasks' = [tasks EXCEPT ![t] = next]
                             /\ running' = RunningAfter(t, next)
    /\ UNCHANGED <<Ledger, Market, Config, data_lock, file, tmp>>

\* fund: sel = "default" when the command has no argument
Fund(t, u, sel, arg) ==
    /\ CanStart(t)
    /\ LET amount == IF sel = "default" THEN R(DefaultFundAmount, 1) ELSE arg
           rec == [tasks[t] EXCEPT !.kind = "fund", !.user = u, !.sel = sel,
                                   !.arg = arg, !.amount = amount, !.pre = Live(u)]
       IN  IF portfolios[u] = 0
           THEN /\ tasks' = [tasks EXCEPT ![t] = Done(rec, "noportfolio")]
                /\ UNCHANGED <<Ledger, data_lock>>
           ELSE LET out == FundApply(objs[portfolios[u]], amount)
                    seen == [rec EXCEPT !.pf = portfolios[u], !.res = out.res,
                                        !.post = out.pf]
                IN  /\ objs' = [objs EXCEPT ![portfolios[u]] = out.pf]
                    /\ UNCHANGED portfolios
                    /\ IF out.res = "ok"
                       THEN /\ tasks' = [tasks EXCEPT ![t] = SaveRec(seen, "done")]
                            /\ data_lock' = LockAfter(t)
                       ELSE /\ tasks' = [tasks EXCEPT ![t] = Done(seen, out.res)]
                            /\ UNCHANGED data_lock
    /\ UNCHANGED <<Market, Config, running, file, tmp>>

\* a reset that also drops the watchlist and the settings of the user
ResetEverything(t, u) ==
    /\ CanStart(t)
    /\ CreatePortfolio(u)
    /\ tasks' = [tasks EXCEPT ![t] =
                    SaveRec([@ EXCEPT !.kind = "reset", !.user = u, !.res = "ok",
                                      !.pf = Len(objs) + 1, !.pre = Live(u),
                                      !.post = FreshPortfolio], "done")]
    /\ data_lock' = LockAfter(t)
    /\ watchlists' = [watchlists EXCEPT ![u] = <<>>]
    /\ user_settings' = [user_settings EXCEPT ![u] = NoneR]
    /\ UNCHANGED <<Market, loaded, user_stats, running, file, tmp>>

\* reset
Reset(t, u) ==
    /\ CanStart(t)
    /\ CreatePortfolio(u)
    /\ tasks' = [tasks EXCEPT ![t] =
                    SaveRec([@ EXCEPT !.kind = "reset", !.user = u, !.res = "ok",
                                      !.pf = Len(objs) + 1, !.pre = Live(u),
                                      !.post = FreshPortfolio], "done")]
    /\ data_lock' = LockAfter(t)
    /\ UNCHANGED <<Market, Config, running, file, tmp>>

(***************************************************************************)
(* get_token_info: one action per provider response.                       *)
(***************************************************************************)
\* the chain goes on with the next request, or get_token_info returns and
\* its caller runs on
Advance(t, r) ==
    /\ running = 0
    /\ IF r.next \in Providers
       THEN /\ tasks' = [tasks EXCEPT ![t] =
                            [@ EXCEPT !.pc = r.next,
                                      !.q = [info |-> r.info, sol |-> r.sol, src |-> r.src],
                                      !.q_reqs = @ \cup {r.next}]]
            /\ UNCHANGED <<price_cache, running>>
       ELSE /\ tasks' = [tasks EXCEPT ![t] =
                            [@ EXCEPT !.pc = "apply",
                                      !.q = [info |-> r.info, sol |-> r.sol, src |-> r.src],
                                      !.info = r.info]]
            /\ price_cache' =
                   IF r.next = "ret_cached"
                   THEN [price_cache EXCEPT ![tasks[t].token] =
                            [valid |-> TRUE, timestamp |-> now, data |-> r.info]]
                   ELSE price_cache
            /\ running' = t
    /\ UNCHANGED <<Ledger, now, world, moves, Config, data_lock, file, tmp>>

RespRate(t) == tasks[t].pc = "rate" /\ Advance(t, RateStep(tasks[t].q, world.rate))

RespRate2(t) == tasks[t].pc = "rate2" /\ Advance(t, Rate2Step(tasks[t].q, world.rate2))

RespPump(t) == tasks[t].pc = "pump" /\ Advance(t, PumpStep(tasks[t].q, world.pump))

RespDex(t) == tasks[t].pc = "dex" /\ Advance(t, DexStep(tasks[t].q, world.dex))

RespJup(t) == tasks[t].pc = "jup" /\ Advance(t, JupStep(tasks[t].q, world.jup))

RespBird(t) == tasks[t].pc = "bird" /\ Advance(t, BirdStep(tasks[t].q, world.bird))

(***************************************************************************)
(* Handlers, after get_token_info has returned.                            *)
(***************************************************************************)
Resumed(t, kinds) ==
    /\ running = t
    /\ tasks[t].pc = "apply"
    /\ tasks[t].kind \in kinds

\* get_price replies
ApplyPrice(t) ==
    /\ Resumed(t, {"price"})
    /\ tasks' = [tasks EXCEPT ![t] =
                    Done(@, IF Truthy(tasks[t].info.price) THEN "ok" ELSE "noquote")]
    /\ running' = 0
    /\ UNCHANGED <<Ledger, Market, Config, data_lock, file, tmp>>

\* The trade is applied to the dict the handler took before the await; pre and
\* post record the user's portfolio, portfolios[user_id], before and after the
\* step, and live whether that dict still is the user's portfolio.  `stale`
\* tells whether the dict of the traded position was replaced or deleted, and
\* avg the average cost written into it in place, if any: both reach the
\* handlers that hold a reference to that position.
Commit(t, frac, out, stale, avg) ==
    LET me == tasks[t]
        os == [objs EXCEPT ![me.pf] = out.pf]
        rec == [me EXCEPT !.frac = frac, !.res = out.res,
                          !.live = (portfolios[me.user] = me.pf),
                          !.pre = Live(me.user),
                          !.post = LiveOf(portfolios, os, me.user)]
        mine == IF out.res = "ok" THEN SaveRec(rec, "done") ELSE Done(rec, out.res)
        Other(x) ==
            IF tasks[x].pf = me.pf /\ tasks[x].token = me.token /\ tasks[x].pos_fresh
            THEN [tasks[x] EXCEPT !.pos_fresh = ~stale,
                                  !.pos_avg = IF IsNone(avg) THEN @ ELSE avg]
            ELSE tasks[x]
    IN  /\ objs' = os
        /\ tasks' = [x \in Tasks |-> IF x = t THEN mine ELSE Other(x)]
        /\ data_lock' = IF out.res = "ok" THEN LockAfter(t) ELSE data_lock
        /\ running' = 0
        /\ user_stats' = IF me.kind = "qbuy" /\ out.res = "ok" THEN LogActivity(me.user)
                          ELSE user_stats
        /\ UNCHANGED <<portfolios, Market, Stored, file, tmp>>

\* buy and quick_buy_callback
ApplyBuy(t, frac) ==
    /\ Resumed(t, {"buy", "qbuy"})
    /\ LET me == tasks[t]
           out == BuyApply(objs[me.pf], me.token, me.amount, me.info,
                           user_settings[me.user], frac,
                           IF me.kind = "qbuy" THEN me.info.dex_name ELSE "absent")
       IN  Commit(t, frac, out, out.res = "ok", NoneR)

\* handle_position_actions, posbuy
ApplyPosBuy(t, frac) ==
    /\ Resumed(t, {"posbuy"})
    /\ LET me == tasks[t]
           out == PosBuyApply(objs[me.pf], me.token, me.amount, me.info,
                              user_settings[me.user], frac)
       IN  Commit(t, frac, out, FALSE,
                  IF out.res = "ok" THEN out.pf.positions[me.token].avg_price ELSE NoneR)

\* sell
ApplySell(t, frac) ==
    /\ Resumed(t, {"sell"})
    /\ LET me == tasks[t]
           out == SellApply(objs[me.pf], me.token, me.amount, me.info,
                            user_settings[me.user], frac)
       IN  Commit(t, frac, out, out.res = "ok" /\ ~Held(out.pf, me.token), NoneR)

\* handle_position_actions, possell
ApplyPosSell(t, frac) ==
    /\ Resumed(t, {"possell"})
    /\ LET me == tasks[t]
           out == PosSellApply(objs[me.pf], me.token, me.amount, me.pos_avg, me.info,
                               user_settings[me.user], frac)
       IN  Commit(t, frac, out, out.res = "ok" /\ ~Held(out.pf, me.token), NoneR)

(***************************************************************************)
(* save_data.                                                              *)
(***************************************************************************)
\* a waiter gets data_lock
SaveAcquire(t) ==
    /\ running = 0
    /\ tasks[t].pc = "save_wait"
    /\ data_lock = 0
    /\ data_lock' = t
    /\ tasks' = [tasks EXCEPT ![t].pc = "save_io"]
    /\ UNCHANGED <<Ledger, Market, Config, running, file, tmp>>

\* _write_file_sync has written the document; the lock is released and the
\* handler runs on
SaveDone(t) ==
    /\ running = 0
    /\ tasks[t].pc = "save_io"
    /\ data_lock = t
    /\ file' = Written(Snapshot(portfolios, objs, user_settings, watchlists, user_stats))
    /\ tmp' = NoFile
    /\ data_lock' = 0
    /\ tasks' = [tasks EXCEPT ![t].pc = tasks[t].after, ![t].saved = "ok"]
    /\ running' = RunningAfter(t, [pc |-> tasks[t].after])
    /\ UNCHANGED <<Ledger, Market, Config>>

(***************************************************************************)
(* Time and market.                                                        *)
(***************************************************************************)
Tick(d) ==
    /\ running = 0
    /\ now + d <= MaxTime
    /\ now' = now + d
    /\ UNCHANGED <<Ledger, price_cache, world, moves, Config, tasks, running,
                   data_lock, file, tmp>>

MarketChange(w) ==
    /\ running = 0
    /\ moves < MaxMoves
    /\ w # world
    /\ world' = w
    /\ moves' = moves + 1
    /\ UNCHANGED <<Ledger, price_cache, now, Config, tasks, running, data_lock,
                   file, tmp>>

(***************************************************************************)
(* Inputs of the commands.                                                 *)
(***************************************************************************)
BuyAmounts == {R(15, 1)}

\* amounts no command should accept
BadBuyAmounts == {R(-5, 1), Zero}

\* the amounts of the quick-buy and buy-more buttons
ButtonAmounts == {R(1, 1)}

SellArgs == {[sel |-> "all", arg |-> NoneR], [sel |-> "amt", arg |-> R(3000, 1)]}

BadSellArgs == {[sel |-> "amt", arg |-> R(-3000, 1)], [sel |-> "amt", arg |-> Zero]}

\* the percentages of the sell buttons
Percentages == {75, 100}

FundArgs == {[sel |-> "default", arg |-> NoneR], [sel |-> "amt", arg |-> R(25, 1)]}

BadFundArgs == {[sel |-> "amt", arg |-> R(-25, 1)], [sel |-> "amt", arg |-> Zero]}

NextWith(buy_amounts, sell_args, fund_args) ==
    \/ \E t \in Tasks, k \in LedgerTokens : Price(t, k)
    \/ \E t \in Tasks, u \in Users : Start(t, u)
    \/ \E t \in Tasks, u \in Users, k \in LedgerTokens, a \in buy_amounts : Buy(t, u, k, a)
    \/ \E t \in Tasks : BuyCheck(t)
    \/ \E t \in Tasks, u \in Users, k \in LedgerTokens, a \in ButtonAmounts : QuickBuy(t, u, k, a)
    \/ \E t \in Tasks, u \in Users, k \in LedgerTokens, a \in ButtonAmounts : PosBuy(t, u, k, a)
    \/ \E t \in Tasks, u \in Users, k \in LedgerTokens, a \in sell_args : Sell(t, u, k, a.sel, a.arg)
    \/ \E t \in Tasks, u \in Users, k \in LedgerTokens, p \in Percentages : PosSell(t, u, k, p)
    \/ \E t \in Tasks, u \in Users, a \in fund_args : Fund(t, u, a.sel, a.arg)
    \/ \E t \in Tasks, u \in Users : Reset(t, u)
    \/ \E t \in Tasks : RespRate(t)
    \/ \E t \in Tasks : RespRate2(t)
    \/ \E t \in Tasks : RespPump(t)
    \/ \E t \in Tasks : RespDex(t)
    \/ \E t \in Tasks : RespJup(t)
    \/ \E t \in Tasks : RespBird(t)
    \/ \E t \in Tasks : ApplyPrice(t)
    \/ \E t \in Tasks, f \in DrawFractions : ApplyBuy(t, f)
    \/ \E t \in Tasks, f \in DrawFractions : ApplyPosBuy(t, f)
    \/ \E t \in Tasks, f \in DrawFractions : ApplySell(t, f)
    \/ \E t \in Tasks, f \in DrawFractions : ApplyPosSell(t, f)
    \/ \E t \in Tasks : SaveAcquire(t)
    \/ \E t \in Tasks : SaveDone(t)
    \/ \E d \in TickSteps : Tick(d)

Next == NextWith(BuyAmounts, SellArgs, FundArgs)

Spec == Init /\ [][Next]_vars

\* the same handlers, given amounts that are negative or zero
NextAmounts == NextWith(BadBuyAmounts, BadSellArgs, BadFundArgs)

SpecAmounts == Init /\ [][NextAmounts]_vars

(***************************************************************************)
(* get_token_info on its own: get_price calls under every combination of   *)
(* provider answers, with a market that moves.                             *)
(***************************************************************************)
QuoteTicks == {5, 10}

RateAnswers == {Usd(SolRate), [k |-> "exc", v |-> Zero], [k |-> "non200", v |-> Zero]}

PumpAnswers == {PumpFail, Pump("complete"), Pump("active"), Pump("partial_pre"),
                Pump("partial_post")}

DexAnswers ==
    {DexFail,
     Dex("ok", <<Pair(R(1, 10), R(5000, 1), "raydium")>>),
     Dex("ok", <<Pair(R(1, 10), R(5000, 1), "raydium"), Pair(R(1, 5), R(9000, 1), "orca"),
                 Pair(R(3, 10), R(9000, 1), "meteora")>>),
     Dex("ok", <<Pair(Zero, R(5000, 1), "raydium")>>),
     Dex("ok", <<Pair(R(1, 10), NoneR, "raydium"), Pair(R(3, 10), R(9000, 1), "meteora")>>),
     Dex("ok", <<Pair(R(1, 10), NoneR, "raydium"), Pair(R(1, 5), Zero, "orca")>>),
     Dex("partial", <<Pair(R(1, 10), R(5000, 1), "raydium")>>)}

\* every combination of answers, the answers that are never asked for left
\* at "fail"
QuoteWorlds ==
    {w \in [rate : RateAnswers, rate2 : {Usd(SolRate), Fail}, pump : PumpAnswers,
            dex : DexAnswers, jup : {Fail, Usd(R(2, 5)), Usd(Zero)},
            bird : {Fail, Usd(R(1, 2))}] :
        /\ w.rate.k # "exc" => w.rate2 = Fail
        /\ w.pump.k = "active" => w.dex = DexFail /\ w.jup = Fail /\ w.bird = Fail}

MovedWorlds == {WDex(R(1, 5))}

InitQuote == InitWith(QuoteWorlds, {[portfolios |-> [u \in Users |-> 0], objs |-> <<>>]})

NextQuote ==
    \/ \E t \in Tasks, k \in Tokens : Price(t, k)
    \/ \E t \in Tasks : RespRate(t)
    \/ \E t \in Tasks : RespRate2(t)
    \/ \E t \in Tasks : RespPump(t)
    \/ \E t \in Tasks : RespDex(t)
    \/ \E t \in Tasks : RespJup(t)
    \/ \E t \in Tasks : RespBird(t)
    \/ \E t \in Tasks : ApplyPrice(t)
    \/ \E d \in QuoteTicks : Tick(d)
    \/ \E w \in MovedWorlds \cup {WPump} : MarketChange(w)

SpecQuote == InitQuote /\ [][NextQuote]_vars

(***************************************************************************)
(* The commands run one after the other: what a handler does to the        *)
(* portfolio of its user when nothing else runs between its first and its  *)
(* last statement.                                                         *)
(***************************************************************************)
BuyKinds == {"buy", "qbuy", "posbuy"}

SellKinds == {"sell", "possell"}

\* the handler got a quote and drew its slippage
Quoted(rec) == rec.q_start >= 0 /\ ~IsNone(rec.frac)

Known(pf) == [known |-> TRUE, pf |-> pf]

\* the trade of a handler that never got as far as its quote is not known
Replay(rec, out) == IF Quoted(rec) THEN Known(out.pf) ELSE [known |-> FALSE, pf |-> Absent]

SeqCmd(rec, pf, setting) ==
    IF rec.kind = "reset" THEN Known(FreshPortfolio)
    ELSE IF rec.kind = "start" THEN Known(IF pf = Absent THEN FreshPortfolio ELSE pf)
    ELSE IF rec.kind = "buy"
    THEN LET own == IF pf = Absent THEN FreshPortfolio ELSE pf
         IN  IF InsufficientBalance(own, rec.arg) THEN Known(own)
             ELSE Replay(rec, BuyApply(own, rec.token, rec.arg, rec.info, setting,
                                       rec.frac, "absent"))
    ELSE IF pf = Absent \/ rec.kind = "price" THEN Known(pf)
    ELSE IF rec.kind = "fund" THEN Known(FundApply(pf, rec.amount).pf)
    ELSE IF rec.kind = "qbuy"
    THEN IF InsufficientBalance(pf, rec.arg) THEN Known(pf)
         ELSE Replay(rec, BuyApply(pf, rec.token, rec.arg, rec.info, setting, rec.frac,
                                   rec.info.dex_name))
    ELSE IF rec.kind = "posbuy"
    THEN IF InsufficientBalance(pf, rec.arg) THEN Known(pf)
         ELSE Replay(rec, PosBuyApply(pf, rec.token, rec.arg, rec.info, setting, rec.frac))
    ELSE IF rec.kind = "sell"
    THEN LET chk == SellCheck(pf, rec.token, rec.sel, rec.arg)
         IN  IF chk.res # "ok" THEN Known(pf)
             ELSE Replay(rec, SellApply(pf, rec.token, chk.amount, rec.info, setting,
                                        rec.frac))
    ELSE IF ~Held(pf, rec.token) THEN Known(pf)
    ELSE Replay(rec, PosSellApply(pf, rec.token,
                                  PercentAmount(pf.positions[rec.token].amount, rec.arg[1]),
                                  pf.positions[rec.token].avg_price, rec.info, setting,
                                  rec.frac))

\* some order of the commands S, run one after the other from pf, ends in target
RECURSIVE SomeOrder(_, _, _, _)
SomeOrder(S, pf, setting, target) ==
    IF S = {} THEN pf = target
    ELSE \E t \in S :
            LET r == SeqCmd(tasks[t], pf, setting)
            IN  ~r.known \/ SomeOrder(S \ {t}, r.pf, setting, target)

CommandsOf(u) == {t \in Tasks : tasks[t].user = u /\ tasks[t].pc = "done"}

Quiescent == \A t \in Tasks : tasks[t].pc \in {"new", "done"}

\* the returned quotes that were computed, not read from the cache
Computed(t) ==
    /\ tasks[t].kind = "price"
    /\ tasks[t].pc \in {"apply", "done"}
    /\ ~tasks[t].q_hit

\* the execution price of the trade of a handler
ExecPriceOf(rec, is_buy) ==
    apply_slippage(rec.info.price, is_buy, user_settings[rec.user], rec.frac)[1]

SellsAll(rec) == rec.sel = "all" \/ (rec.kind = "possell" /\ rec.arg = R(100, 1))

(***************************************************************************)
(* Trading under a configured slippage: the settings menu, /buy and /sell  *)
(* of one user, with a market that moves once.                             *)
(***************************************************************************)
\* callback_data of the buttons of the settings menu
SettingsButtons ==
    {"set_reset", "set_slip_0.5", "set_slip_1.0", "set_slip_3.0", "set_slip_5.0",
     "set_slip_10.0"}

\* float(data.split('_')[2])
SlipValue(data) ==
    CASE data = "set_slip_0.5" -> R(1, 2)
      [] data = "set_slip_1.0" -> R(1, 1)
      [] data = "set_slip_3.0" -> R(3, 1)
      [] data = "set_slip_5.0" -> R(5, 1)
      [] data = "set_slip_10.0" -> R(10, 1)

\* handle_settings: the value user_settings[user_id]['slippage'] ends with
SetSlippage(data) == IF data = "set_reset" THEN R(1, 1) ELSE SlipValue(data)

\* handle_settings: the setting is stored, then saved, then the menu is shown
\* again by settings_command, which finds the user's settings present
HandleSettings(t, u, data) ==
    /\ CanStart(t)
    /\ user_settings' = [user_settings EXCEPT ![u] = SetSlippage(data)]
    /\ tasks' = [tasks EXCEPT ![t] =
                    SaveRec([@ EXCEPT !.kind = "settings", !.user = u, !.res = "ok",
                                      !.pre = Live(u), !.post = Live(u)], "done")]
    /\ data_lock' = LockAfter(t)
    /\ UNCHANGED <<Ledger, Market, loaded, watchlists, user_stats, running, file, tmp>>

\* settings_command: a user without settings gets the default, which is saved
SettingsCommand(t, u) ==
    /\ CanStart(t)
    /\ LET rec == [tasks[t] EXCEPT !.kind = "settings", !.user = u, !.res = "ok",
                                   !.pre = Live(u), !.post = Live(u)]
       IN  IF IsNone(user_settings[u])
           THEN /\ user_settings' = [user_settings EXCEPT ![u] = R(1, 1)]
                /\ tasks' = [tasks EXCEPT ![t] = SaveRec(rec, "done")]
                /\ data_lock' = LockAfter(t)
           ELSE /\ tasks' = [tasks EXCEPT ![t] = Done(rec, "ok")]
                /\ UNCHANGED <<user_settings, data_lock>>
    /\ UNCHANGED <<Ledger, Market, loaded, watchlists, user_stats, running, file, tmp>>

TradeAmounts == {R(5, 1)}

\* random.uniform's draw: the low end, the middle and the high end
TradeFractions == {Zero, R(1, 2), R(1, 1)}

TradeLedgers ==
    { [portfolios |-> [u \in Users |-> IF u = 1 THEN 1 ELSE 0],
       objs |-> <<FreshPortfolio>>],
      [portfolios |-> [u \in Users |-> IF u = 1 THEN 1 ELSE 0], objs |-> <<Holding>>] }

InitTrade == InitWith({WDex(R(1, 10))}, TradeLedgers)

NextTrade ==
    \/ \E t \in Tasks, u \in {1}, d \in SettingsButtons : HandleSettings(t, u, d)
    \/ \E t \in Tasks, u \in {1} : SettingsCommand(t, u)
    \/ \E t \in Tasks, u \in {1}, k \in LedgerTokens, a \in TradeAmounts :
          Buy(t, u, k, a)
    \/ \E t \in Tasks : BuyCheck(t)
    \/ \E t \in Tasks, u \in {1}, k \in LedgerTokens : Sell(t, u, k, "all", NoneR)
    \/ \E t \in Tasks : RespRate(t)
    \/ \E t \in Tasks : RespPump(t)
    \/ \E t \in Tasks : RespDex(t)
    \/ \E t \in Tasks, f \in TradeFractions : ApplyBuy(t, f)
    \/ \E t \in Tasks, f \in TradeFractions : ApplySell(t, f)
    \/ \E t \in Tasks : SaveAcquire(t)
    \/ \E t \in Tasks : SaveDone(t)
    \/ \E d \in TickSteps : Tick(d)
    \/ \E w \in MovedWorlds : MarketChange(w)

SpecTrade == InitTrade /\ [][NextTrade]_vars

(***************************************************************************)
(* save_data step by step: _write_file_sync runs in a thread of the        *)
(* executor, beside the event loop, and the process may be killed at any   *)
(* point.                                                                  *)
(***************************************************************************)
\* running, once the process has been killed
Crashed == 0 - 1

DataFile == "paper_trading_data.json"

\* a path that writes over the data file itself
TempFileInPlace(filename) == filename

\* temp_file = f"{filename}.tmp"
TempFile(filename) == filename \o ".tmp"

\* the two files after `content` has been written to `path`
WriteTo(path, content) ==
    IF path = DataFile THEN [file |-> content, tmp |-> tmp]
    ELSE [file |-> file, tmp |-> content]

\* the two files after os.replace(src, DataFile)
ReplaceFrom(src) ==
    IF src = DataFile THEN [file |-> file, tmp |-> tmp]
    ELSE [file |-> tmp, tmp |-> NoFile]

\* the stages of a save that holds data_lock
SaveStages == {"save_io", "save_open", "save_dump", "save_written", "save_ret"}

ThreadStep(t, from, to, disk, saved) ==
    /\ running # Crashed
    /\ tasks[t].pc = from
    /\ data_lock = t
    /\ file' = disk.file
    /\ tmp' = disk.tmp
    /\ tasks' = [tasks EXCEPT ![t].pc = to, ![t].saved = saved]
    /\ UNCHANGED <<Ledger, Market, Config, running, data_lock>>

\* open(temp_file, 'w'): the file is created or cut to nothing
SaveOpen(t) ==
    /\ tasks[t].pc = "save_io"
    /\ ThreadStep(t, "save_io", "save_open", WriteTo(TempFile(DataFile), PartFile),
                  "none")

\* the order in which json.dump goes through the keys of `data`
DumpOrder == <<"portfolios", "watchlists", "user_settings", "user_stats">>

\* json.dump(data, f, ...) starts in the thread of the executor: `data` holds
\* the four global dictionaries themselves, not copies, and the event loop
\* runs other handlers while the thread goes through them
SaveDump(t) ==
    /\ running # Crashed
    /\ tasks[t].pc = "save_open"
    /\ data_lock = t
    /\ tasks' = [tasks EXCEPT ![t].pc = "save_dump",
                              ![t].dumped = Snapshot(portfolios, objs, user_settings,
                                                     watchlists, user_stats)]
    /\ UNCHANGED <<Ledger, Market, Config, running, data_lock, file, tmp>>

\* the document of a thread that had gone through the first k dictionaries
\* when a handler changed them
MixedDoc(early, late, k) ==
    [c \in Collections |->
        IF \E i \in 1..k : DumpOrder[i] = c THEN early[c] ELSE late[c]]

\* json.dump(data, f, ...) ends, and the with block: each dictionary is in
\* the document as it was when the thread went through it
SaveWrite(t, k) ==
    /\ tasks[t].pc = "save_dump"
    /\ ThreadStep(t, "save_dump", "save_written",
                  WriteTo(TempFile(DataFile),
                          Written(MixedDoc(tasks[t].dumped,
                                           Snapshot(portfolios, objs, user_settings,
                                                    watchlists, user_stats), k))),
                  "none")

\* a handler added a key to a dictionary while the thread iterated over it:
\* "RuntimeError: dictionary changed size during iteration" leaves json.dump
\* and is printed by save_data
SaveResized(t) ==
    /\ tasks[t].pc = "save_dump"
    /\ \E c \in Collections :
          DOMAIN tasks[t].dumped[c] #
              DOMAIN Snapshot(portfolios, objs, user_settings, watchlists, user_stats)[c]
    /\ ThreadStep(t, "save_dump", "save_ret", [file |-> file, tmp |-> tmp], "resized")

\* os.replace(temp_file, filename)
SaveReplace(t) ==
    /\ tasks[t].pc = "save_written"
    /\ ThreadStep(t, "save_written", "save_ret", ReplaceFrom(TempFile(DataFile)), "ok")

\* a failure that leaves save_data as an exception and ends the handler
SaveFailEscapes(t) ==
    /\ running # Crashed
    /\ tasks[t].pc \in {"save_io", "save_open", "save_dump", "save_written"}
    /\ data_lock = t
    /\ tasks' = [tasks EXCEPT ![t].pc = "done", ![t].res = "crash",
                              ![t].saved = "failed"]
    /\ UNCHANGED <<Ledger, Market, Config, running, data_lock, file, tmp>>

\* open, json.dump or os.replace raises: the files stay as they are at that
\* point and the exception goes to save_data, which prints it
SaveFail(t) ==
    /\ tasks[t].pc \in {"save_io", "save_open", "save_dump", "save_written"}
    /\ ThreadStep(t, tasks[t].pc, "save_ret", [file |-> file, tmp |-> tmp], "failed")

\* run_in_executor is over: save_data leaves `async with`, the handler runs on
SaveReturn(t) ==
    /\ running = 0
    /\ tasks[t].pc = "save_ret"
    /\ data_lock = t
    /\ data_lock' = 0
    /\ tasks' = [tasks EXCEPT ![t].pc = tasks[t].after]
    /\ running' = RunningAfter(t, [pc |-> tasks[t].after])
    /\ UNCHANGED <<Ledger, Market, Config, file, tmp>>

\* the process is killed
Crash ==
    /\ running # Crashed
    /\ running' = Crashed
    /\ UNCHANGED <<Ledger, Market, Config, tasks, data_lock, file, tmp>>

InitSave == InitWith({WNone}, InitLedgers)

NextSave ==
    \/ \E t \in Tasks, u \in Users : Start(t, u)
    \/ \E t \in Tasks, u \in Users, a \in FundArgs : Fund(t, u, a.sel, a.arg)
    \/ \E t \in Tasks, u \in Users : Reset(t, u)
    \/ \E t \in Tasks, u \in Users, d \in {"set_slip_5.0"} : HandleSettings(t, u, d)
    \/ \E t \in Tasks : SaveAcquire(t)
    \/ \E t \in Tasks : SaveOpen(t)
    \/ \E t \in Tasks : SaveDump(t)
    \/ \E t \in Tasks, k \in 0..Len(DumpOrder) : SaveWrite(t, k)
    \/ \E t \in Tasks : SaveResized(t)
    \/ \E t \in Tasks : SaveReplace(t)
    \/ \E t \in Tasks : SaveFail(t)
    \/ \E t \in Tasks : SaveReturn(t)
    \/ Crash

\* the event loop runs every callback that is ready and the executor runs
\* every call it was given, as long as the process lives
SaveFairness ==
    \A t \in Tasks :
        /\ WF_vars(SaveAcquire(t))
        /\ WF_vars(SaveOpen(t))
        /\ WF_vars(SaveDump(t))
        /\ WF_vars(\E k \in 0..Len(DumpOrder) : SaveWrite(t, k))
        /\ WF_vars(SaveReplace(t))
        /\ WF_vars(SaveReturn(t))

SpecSave == InitSave /\ [][NextSave]_vars /\ SaveFairness

(***************************************************************************)
(* Construction: load_data reads whatever file the directory holds.  The   *)
(* commands of these runs are the ones that need no quote.                 *)
(***************************************************************************)
\* quick_buy_callback, action watch
WatchButton(t, u, token) ==
    /\ CanStart(t)
    /\ LET rec == [tasks[t] EXCEPT !.kind = "watch", !.user = u, !.token = token,
                                   !.pre = Live(u), !.post = Live(u)]
       IN  IF portfolios[u] = 0
           THEN /\ tasks' = [tasks EXCEPT ![t] = Done(rec, "noportfolio")]
                /\ user_stats' = LogActivity(u)
                /\ UNCHANGED <<watchlists, data_lock>>
           ELSE IF \E i \in DOMAIN watchlists[u] : watchlists[u][i] = token
                THEN /\ tasks' = [tasks EXCEPT ![t] = Done(rec, "exists")]
                     /\ UNCHANGED <<watchlists, user_stats, data_lock>>
                ELSE /\ watchlists' = [watchlists EXCEPT ![u] = Append(@, token)]
                     /\ user_stats' = LogActivity(u)
                     /\ tasks' = [tasks EXCEPT ![t] =
                                     SaveRec([rec EXCEPT !.res = "ok"], "done")]
                     /\ data_lock' = LockAfter(t)
    /\ UNCHANGED <<Ledger, Market, user_settings, loaded, running, file, tmp>>

\* the dict objects load_data creates for the portfolios it found, in the
\* order of the user ids
LoadedHeap(views) ==
    LET ps == {u \in Users : views[u] # Absent}
        Rank(u) == Cardinality({x \in ps : x <= u})
    IN  [portfolios |-> [u \in Users |-> IF u \in ps THEN Rank(u) ELSE 0],
         objs |-> [i \in 1..Cardinality(ps) |-> views[CHOOSE u \in ps : Rank(u) = i]]]

\* what an earlier run of the bot had in memory when it saved for the last
\* time
SavedData ==
    [portfolios |-> [u \in Users |-> IF u = 1 THEN Holding ELSE FreshPortfolio],
     watchlists |-> [u \in Users |-> IF u = 1 THEN <<"T1">> ELSE <<"T2", "T1">>],
     user_settings |-> [u \in Users |-> IF u = 1 THEN R(5, 1) ELSE NoneR],
     user_stats |-> [u \in Users |-> IF u = 1 THEN 2 ELSE 1]]

\* the files load_data may find: none, one that is cut short, and the
\* document of the earlier run with any of its collections left out, as a
\* version of the bot that did not know them wrote it
LoadFiles ==
    LET doc == Snapshot(LoadedHeap(SavedData.portfolios).portfolios,
                        LoadedHeap(SavedData.portfolios).objs, SavedData.user_settings,
                        SavedData.watchlists, SavedData.user_stats)
    IN  {NoFile, PartFile} \cup {Written([c \in S |-> doc[c]]) : S \in SUBSET Collections}

InitLoad ==
    /\ file \in LoadFiles
    /\ loaded = LoadData(file)
    /\ portfolios = LoadedHeap(loaded.portfolios).portfolios
    /\ objs = LoadedHeap(loaded.portfolios).objs
    /\ watchlists = loaded.watchlists
    /\ user_settings = loaded.user_settings
    /\ user_stats = loaded.user_stats
    /\ tmp = NoFile
    /\ price_cache = [k \in Tokens |-> NoCache]
    /\ now = 0
    /\ world = WNone
    /\ moves = 0
    /\ tasks = [t \in Tasks |-> NewTask]
    /\ running = 0
    /\ data_lock = 0

NextLoad ==
    \/ \E t \in Tasks, u \in Users : Start(t, u)
    \/ \E t \in Tasks, u \in Users : Reset(t, u)
    \/ \E t \in Tasks, u \in Users, d \in {"set_slip_5.0"} : HandleSettings(t, u, d)
    \/ \E t \in Tasks, u \in Users, token \in LedgerTokens : WatchButton(t, u, token)
    \/ \E t \in Tasks : SaveAcquire(t)
    \/ \E t \in Tasks : SaveDone(t)

SpecLoad == InitLoad /\ [][NextLoad]_vars

(***************************************************************************)
(* leaderboard and stats_command.  Each of their get_token_info calls is   *)
(* taken as a whole: the chain runs against the answers of one moment.     *)
(***************************************************************************)
\* the chain from the request to provider p on
RECURSIVE ChainFrom(_, _, _)
ChainFrom(q, p, w) ==
    LET r == CASE p = "rate" -> RateStep(q, w.rate)
               [] p = "rate2" -> Rate2Step(q, w.rate2)
               [] p = "pump" -> PumpStep(q, w.pump)
               [] p = "dex" -> DexStep(q, w.dex)
               [] p = "jup" -> JupStep(q, w.jup)
               [] p = "bird" -> BirdStep(q, w.bird)
    IN  IF r.next \in Providers
        THEN ChainFrom([info |-> r.info, sol |-> r.sol, src |-> r.src], r.next, w)
        ELSE r

\* get_token_info: the quote returned and the cache afterwards
QuoteNow(token) ==
    IF CacheHit(price_cache, token, now)
    THEN [info |-> price_cache[token].data, cache |-> price_cache]
    ELSE LET r == ChainFrom([info |-> EmptyInfo, sol |-> Zero, src |-> "none"],
                            "rate", world)
         IN  [info |-> r.info,
              cache |-> IF r.next = "ret_cached"
                        THEN [price_cache EXCEPT ![token] =
                                 [valid |-> TRUE, timestamp |-> now, data |-> r.info]]
                        ELSE price_cache]

\* token_prices: the tokens whose result has a truthy price
TokenPrices(infos) ==
    [k \in {x \in Tokens : Truthy(infos[x].price)} |-> infos[k].price]

\* the sum of amount * price over the positions `keys`, a position whose token
\* has no entry in token_prices taken at the price `missing` gives for it
RECURSIVE PositionsValue(_, _, _, _)
PositionsValue(positions, keys, token_prices, missing) ==
    IF keys = {} THEN Zero
    ELSE LET k == CHOOSE x \in keys : TRUE
             price == IF k \in DOMAIN token_prices THEN token_prices[k]
                      ELSE missing[k]
         IN  RAdd(RMul(positions[k].amount, price),
                  PositionsValue(positions, keys \ {k}, token_prices, missing))

\* token_prices.get(token, pos['avg_price'])
AvgPrices(positions) == [k \in DOMAIN positions |-> positions[k].avg_price]

\* a position without a price adds nothing
NoValue(positions) == [k \in DOMAIN positions |-> Zero]

\* a leaderboard that leaves out the positions without a live price
LeaderEquityLiveOnly(pf, token_prices) ==
    RAdd(pf.balance,
         PositionsValue(pf.positions, DOMAIN pf.positions, token_prices, NoValue(pf.positions)))

\* leaderboard: total_value of one user
LeaderEquity(pf, token_prices) ==
    RAdd(pf.balance,
         PositionsValue(pf.positions, DOMAIN pf.positions, token_prices,
                        AvgPrices(pf.positions)))

\* stats_command: total_value, a position counted only if info['price'] is
\* truthy
StatsEquity(pf, infos) ==
    RAdd(pf.balance,
         PositionsValue(pf.positions, DOMAIN pf.positions, TokenPrices(infos),
                        NoValue(pf.positions)))

\* leaderboard, up to asyncio.gather
Leaderboard(t) ==
    /\ CanStart(t)
    /\ LET rec == [tasks[t] EXCEPT !.kind = "leaderboard"]
           all_tokens == UNION {DOMAIN Live(u).positions : u \in Users}
       IN  IF \A u \in Users : portfolios[u] = 0
           THEN tasks' = [tasks EXCEPT ![t] = Done(rec, "empty")]
           ELSE tasks' = [tasks EXCEPT ![t] = [rec EXCEPT !.pc = "gather",
                                                          !.todo = all_tokens]]
    /\ UNCHANGED <<Ledger, Market, Config, running, data_lock, file, tmp>>

\* one get_token_info call of the gather returns
LeaderQuote(t, token) ==
    /\ running = 0
    /\ tasks[t].pc = "gather"
    /\ token \in tasks[t].todo
    /\ tasks' = [tasks EXCEPT ![t].infos[token] = QuoteNow(token).info,
                              ![t].todo = @ \ {token}]
    /\ price_cache' = QuoteNow(token).cache
    /\ UNCHANGED <<Ledger, now, world, moves, Config, running, data_lock, file, tmp>>

\* leaderboard, after asyncio.gather
LeaderRank(t) ==
    /\ running = 0
    /\ tasks[t].pc = "gather"
    /\ tasks[t].todo = {}
    /\ tasks' = [tasks EXCEPT ![t] =
                    Done([@ EXCEPT !.equity =
                             [u \in Users |->
                                IF portfolios[u] = 0 THEN NoneR
                                ELSE LeaderEquity(Live(u), TokenPrices(tasks[t].infos))]],
                         "ok")]
    /\ UNCHANGED <<Ledger, Market, Config, running, data_lock, file, tmp>>

\* stats_command, up to the loop over the positions
StatsCommand(t, u) ==
    /\ CanStart(t)
    /\ LET rec == [tasks[t] EXCEPT !.kind = "stats", !.user = u, !.pre = Live(u),
                                   !.post = Live(u)]
       IN  IF portfolios[u] = 0 \/ Live(u).history = <<>>
           THEN tasks' = [tasks EXCEPT ![t] = Done(rec, "nohistory")]
           ELSE tasks' = [tasks EXCEPT ![t] =
                            [rec EXCEPT !.pc = "stats_loop", !.pf = portfolios[u],
                                        !.todo = DOMAIN Live(u).positions]]
    /\ UNCHANGED <<Ledger, Market, Config, running, data_lock, file, tmp>>

\* stats_command: the get_token_info call of one position returns
StatsQuote(t, token) ==
    /\ running = 0
    /\ tasks[t].pc = "stats_loop"
    /\ token \in tasks[t].todo
    /\ tasks' = [tasks EXCEPT ![t].infos[token] = QuoteNow(token).info,
                              ![t].todo = @ \ {token}]
    /\ price_cache' = QuoteNow(token).cache
    /\ UNCHANGED <<Ledger, now, world, moves, Config, running, data_lock, file, tmp>>

\* stats_command, after the loop
StatsReply(t) ==
    /\ running = 0
    /\ tasks[t].pc = "stats_loop"
    /\ tasks[t].todo = {}
    /\ tasks' = [tasks EXCEPT ![t] =
                    Done([@ EXCEPT !.equity[tasks[t].user] =
                             StatsEquity(objs[tasks[t].pf], tasks[t].infos)], "ok")]
    /\ UNCHANGED <<Ledger, Market, Config, running, data_lock, file, tmp>>

\* a portfolio with a second position, bought with 5 SOL at 0.05
TwoTokens ==
    [balance |-> R(10, 1),
     positions |-> SetPosition(Holding.positions, "T2",
                     [amount |-> R(100, 1), avg_price |-> R(1, 20), symbol |-> "TOK"]),
     history |-> Append(Holding.history,
                        BuyTrade("T2", R(100, 1), R(1, 20), R(5, 1), "absent"))]

EquityLedgers ==
    { [portfolios |-> [u \in Users |-> 0], objs |-> <<>>],
      [portfolios |-> [u \in Users |-> u], objs |-> <<TwoTokens, FreshPortfolio>>],
      [portfolios |-> [u \in Users |-> u], objs |-> <<TwoTokens, Holding>>] }

EquityWorlds == {WDex(R(1, 5)), WNone}

InitEquity == InitWith(EquityWorlds, EquityLedgers)

NextEquity ==
    \/ \E t \in Tasks : Leaderboard(t)
    \/ \E t \in Tasks, k \in Tokens : LeaderQuote(t, k)
    \/ \E t \in Tasks : LeaderRank(t)
    \/ \E t \in Tasks, u \in Users : StatsCommand(t, u)
    \/ \E t \in Tasks, k \in Tokens : StatsQuote(t, k)
    \/ \E t \in Tasks : StatsReply(t)
    \/ \E d \in TickSteps : Tick(d)
    \/ \E w \in EquityWorlds : MarketChange(w)

SpecEquity == InitEquity /\ [][NextEquity]_vars

(***************************************************************************)
(* Claims.                                                                 *)
(***************************************************************************)
\* C1: after every successful buy (/buy, quick-buy button, buy-more button)
\* the balance of the user is the balance before the buy minus the requested
\* base amount, whatever the execution price.
C1_BuyDebitsRequestedAmount ==
    \A t \in Tasks :
        tasks[t].kind \in BuyKinds /\ tasks[t].res = "ok"
            => tasks[t].post.balance = RSub(tasks[t].pre.balance, tasks[t].amount)

\* C2: once the commands of a user have all finished, the portfolio of the user
\* is what running those commands one after the other, in some order, from the
\* portfolio loaded at construction gives.
C2_SerialOutcome ==
    Quiescent =>
        \A u \in Users :
            SomeOrder(CommandsOf(u), loaded.portfolios[u], user_settings[u], Live(u))

\* C3: the balance of every user's portfolio is never negative.
C3_BalanceNonNegative ==
    \A u \in Users : portfolios[u] # 0 => RLe(Zero, Live(u).balance)

\* C4: a get_token_info call that begins less than the cache lifetime after the
\* beginning of an earlier call for the same token that has returned is served
\* from the cache and sends no request.
C4_SecondCallFromCache ==
    \A t \in Tasks : tasks[t].q_after => tasks[t].q_hit /\ tasks[t].q_reqs = {}

\* C5: a returned quote names a provider in dex_name only when it carries a
\* price: dex_name is never set when no price is returned.
C5_NoDexNameWithoutPrice ==
    \A t \in Tasks :
        Computed(t) /\ IsNone(tasks[t].info.price) => tasks[t].info.dex_name = "None"

\* C6: the step in which a buy or a sell finds no price in its quote ends the
\* command and changes no portfolio: balance, positions and history stay.
C6_NoQuoteRefusedUnchanged ==
    [][\A t \in Tasks :
          /\ tasks[t].kind \in BuyKinds \cup SellKinds
          /\ tasks[t].pc = "apply"
          /\ tasks'[t].res = "noquote"
          => /\ objs' = objs
             /\ portfolios' = portfolios
             /\ tasks'[t].pc = "done"]_vars

\* C6 witness: a buy and a sell were both refused for want of a price, each on
\* the portfolio of its user.
C6_Witness ==
    \E b \in Tasks, s \in Tasks :
        /\ tasks[b].kind \in BuyKinds /\ tasks[b].res = "noquote" /\ tasks[b].live
        /\ tasks[s].kind \in SellKinds /\ tasks[s].res = "noquote" /\ tasks[s].live

\* C7: no successful buy debits more than the balance the user has at the
\* moment of the debit.
C7_NoOverdraft ==
    \A t \in Tasks :
        tasks[t].kind \in BuyKinds /\ tasks[t].res = "ok" /\ tasks[t].live
            => RLe(tasks[t].amount, tasks[t].pre.balance)

\* C8: a sell that goes through finds the token held and removes no more than
\* the position holds at that moment; a sell that fails leaves the portfolio
\* as it was.
C8_NoOversell ==
    \A t \in Tasks :
        tasks[t].kind \in SellKinds /\ tasks[t].live
            => /\ tasks[t].res = "ok"
                    => /\ Held(tasks[t].pre, tasks[t].token)
                       /\ RLe(tasks[t].amount,
                              tasks[t].pre.positions[tasks[t].token].amount)
               /\ tasks[t].res \in {"nopos", "insufficient_holdings", "crash"}
                    => tasks[t].post = tasks[t].pre

\* C9: after a successful sell of everything ('all', or the 100% button) the
\* token is absent from the positions of the user.
C9_SellAllRemovesPosition ==
    \A t \in Tasks :
        /\ tasks[t].kind \in SellKinds
        /\ SellsAll(tasks[t])
        /\ tasks[t].res = "ok"
        /\ tasks[t].live
        => ~Held(tasks[t].post, tasks[t].token)

\* C10: after a successful buy the position of the user holds the old amount
\* plus the tokens bought, at an average cost with
\* newAvg * (old + new) = old * oldAvg + new * execPrice; a buy into no
\* position leaves a position of the tokens bought at the execution price.
C10_WeightedAverageCost ==
    \A t \in Tasks :
        tasks[t].kind \in BuyKinds /\ tasks[t].res = "ok"
            => LET rec == tasks[t]
                   exec_price == ExecPriceOf(rec, TRUE)
                   tokens == RDiv(rec.amount, exec_price)
               IN  /\ Held(rec.post, rec.token)
                   /\ IF Held(rec.pre, rec.token)
                      THEN LET old == rec.pre.positions[rec.token]
                               new == rec.post.positions[rec.token]
                           IN  /\ new.amount = RAdd(old.amount, tokens)
                               /\ RMul(new.avg_price, RAdd(old.amount, tokens))
                                      = RAdd(RMul(old.amount, old.avg_price),
                                             RMul(tokens, exec_price))
                      ELSE /\ rec.post.positions[rec.token].amount = tokens
                           /\ rec.post.positions[rec.token].avg_price = exec_price

\* C11: a successful sell of `amount` tokens credits the balance of the user by
\* amount * execPrice, reduces the position by amount, removes the entry iff
\* what is left is below the threshold, and appends one SELL trade whose
\* profit is (execPrice - avgCost) * amount, avgCost being the average cost of
\* the position before the sell.
C11_SellAccounting ==
    \A t \in Tasks :
        tasks[t].kind \in SellKinds /\ tasks[t].res = "ok" /\ tasks[t].live
            => LET rec == tasks[t]
                   exec_price == ExecPriceOf(rec, FALSE)
                   proceeds == RMul(rec.amount, exec_price)
               IN  IF ~Held(rec.pre, rec.token) THEN FALSE
                   ELSE LET old == rec.pre.positions[rec.token]
                            left == RSub(old.amount, rec.amount)
                        IN  /\ rec.post.balance = RAdd(rec.pre.balance, proceeds)
                            /\ IF RLt(left, DustThreshold)
                               THEN ~Held(rec.post, rec.token)
                               ELSE /\ Held(rec.post, rec.token)
                                    /\ rec.post.positions[rec.token].amount = left
                            /\ rec.post.history =
                                   Append(rec.pre.history,
                                          SellTrade(rec.token, rec.amount, exec_price, proceeds,
                                                    RMul(RSub(exec_price, old.avg_price),
                                                         rec.amount)))

\* C12: with a zero slippage draw, a user with balance 20 who buys with 5 at
\* base price 0.001 holds 5000 tokens bought at 0.001 and balance 15; selling
\* all of them later at base price 0.002 with a zero draw yields proceeds 10,
\* profit 5, balance 25 and no position.
C12_BoughtAt == R(1, 1000)

C12_SoldAt == R(1, 500)

C12_BuyCase(rec) ==
    /\ rec.kind = "buy" /\ rec.res = "ok" /\ rec.live
    /\ rec.pre = FreshPortfolio /\ rec.pre.balance = R(20, 1)
    /\ rec.amount = R(5, 1) /\ rec.info.price = C12_BoughtAt /\ rec.frac = Zero

C12_SellCase(rec) ==
    /\ rec.kind = "sell" /\ rec.sel = "all" /\ rec.res = "ok" /\ rec.live
    /\ rec.pre = Holding
    /\ rec.info.price = C12_SoldAt /\ rec.frac = Zero

C12_Scenario ==
    \A t \in Tasks :
        /\ C12_BuyCase(tasks[t]) =>
              /\ tasks[t].post.balance = R(15, 1)
              /\ tasks[t].post.positions["T1"].amount = R(5000, 1)
              /\ tasks[t].post.positions["T1"].avg_price = C12_BoughtAt
              /\ tasks[t].post = Holding
        /\ C12_SellCase(tasks[t]) =>
              tasks[t].post =
                  [balance |-> R(25, 1), positions |-> EmptyPositions,
                   history |-> Append(Holding.history,
                                      SellTrade("T1", R(5000, 1), C12_SoldAt, R(10, 1),
                                                R(5, 1)))]

\* the scenario played from its start to its end
C12_Witness ==
    /\ C12_BuyCase(tasks[1])
    /\ C12_SellCase(tasks[2])
    /\ tasks[2].pc = "done"
    /\ Live(1).balance = R(25, 1)

\* C13: /fund with an amount that is zero or negative is rejected and leaves
\* the balance of the user as it was; a fund that succeeds never decreases
\* the balance.
C13_FundRejectsNonPositive ==
    \A t \in Tasks :
        tasks[t].kind = "fund" /\ tasks[t].res # "none"
            => /\ RLe(tasks[t].amount, Zero)
                    => tasks[t].res # "ok" /\ tasks[t].post = tasks[t].pre
               /\ tasks[t].res = "ok"
                    => RLe(tasks[t].pre.balance, tasks[t].post.balance)

\* C14: /fund with an amount above the cap of 20 is rejected and leaves the
\* balance of the user as it was; a fund of amount a that is accepted
\* increases the balance by exactly a, and changes nothing else.
C14_FundStep(t) ==
    /\ tasks[t].pc = "new"
    /\ tasks'[t].kind = "fund"
    /\ portfolios[tasks'[t].user] # 0

C14_FundCapAndCredit ==
    [][\A t \in Tasks :
          C14_FundStep(t)
              => LET u == tasks'[t].user
                     a == tasks'[t].amount
                 IN  /\ RLt(R(FundCap, 1), a)
                          => /\ tasks'[t].res = "over_cap"
                             /\ LiveOf(portfolios', objs', u) = Live(u)
                     /\ tasks'[t].res = "ok"
                          => LiveOf(portfolios', objs', u) =
                                 [Live(u) EXCEPT !.balance = RAdd(@, a)]
                     /\ tasks'[t].res \in {"ok", "over_cap"}]_vars

\* one fund above the cap was refused and one fund was credited
C14_Witness ==
    \E t, x \in Tasks :
        /\ tasks[t].kind = "fund" /\ tasks[t].res = "over_cap"
        /\ tasks[t].amount = R(25, 1) /\ tasks[t].post = tasks[t].pre
        /\ tasks[x].kind = "fund" /\ tasks[x].res = "ok"
        /\ tasks[x].user = tasks[t].user
        /\ tasks[x].post.balance = RAdd(tasks[x].pre.balance, tasks[x].amount)
        /\ Live(tasks[x].user).balance = tasks[x].post.balance

\* C15: a buy or a sell given an amount that is zero or negative is rejected
\* before anything is changed: it never succeeds, and leaves the balance,
\* the positions and the history of the user as they were.
C15_NonPositiveAmountRejected ==
    \A t \in Tasks :
        (/\ tasks[t].kind \in BuyKinds \cup {"sell"}
         /\ tasks[t].sel = "amt"
         /\ RLe(tasks[t].arg, Zero)
         /\ tasks[t].res # "none")
            => tasks[t].res # "ok" /\ tasks[t].post = tasks[t].pre

\* C16: in every reachable state no stored position of any user has an
\* amount from 0 up to the threshold of 1e-4: the entry a buy of nothing or
\* of next to nothing would leave.  (The claim also excludes the negative
\* amounts, which only the negative orders of C15 produce.)
C16_NoDustPosition ==
    \A u \in Users :
        \A k \in DOMAIN Live(u).positions :
            ~(/\ RLe(Zero, Live(u).positions[k].amount)
              /\ RLt(Live(u).positions[k].amount, DustThreshold))

\* C17: whenever a trade is executed at a positive base price, the execution
\* price apply_slippage returns, which is the price of the trade recorded, is
\* not below the base price for a buy and not above it for a sell, and the
\* percentage it reports lies between 0 and the slippage the user has
\* configured at that moment, 1.0 for a user without a setting.
C17_Executed(t) ==
    /\ tasks[t].pc = "apply"
    /\ tasks[t].kind \in {"buy", "sell"}
    /\ tasks'[t].res = "ok"
    /\ RLt(Zero, tasks[t].info.price)

C17_SlippageBounds ==
    [][\A t \in Tasks :
          C17_Executed(t)
              => LET price == tasks[t].info.price
                     is_buy == tasks[t].kind = "buy"
                     setting == user_settings[tasks[t].user]
                     tol == IF IsNone(setting) THEN R(1, 1) ELSE setting
                     out == apply_slippage(price, is_buy, setting, tasks'[t].frac)
                     trade == objs'[tasks[t].pf].history[Len(objs'[tasks[t].pf].history)]
                 IN  /\ trade.price = out[1]
                     /\ is_buy => RLe(price, out[1])
                     /\ ~is_buy => RLe(out[1], price)
                     /\ RLe(Zero, out[2]) /\ RLe(out[2], tol)
                     /\ RLe(Zero, tol)]_vars

\* a buy was executed above the base price, at the full slippage of 10 the
\* user had set
C17_Witness ==
    \E t \in Tasks :
        /\ tasks[t].kind = "buy" /\ tasks[t].res = "ok" /\ tasks[t].frac = R(1, 1)
        /\ user_settings[tasks[t].user] = R(10, 1)
        /\ RLt(Zero, tasks[t].info.price)
        /\ tasks[t].post.history[Len(tasks[t].post.history)].price
               = RMul(tasks[t].info.price, R(11, 10))

\* C18: the document a save writes, when loaded, gives every user the
\* portfolio the user had when it was written, under the user's integer id:
\* the same balance, the same positions (token, amount, average cost, symbol)
\* and the same history in the same order; a user without a portfolio has
\* none after the load.
C18_Saved(t) == tasks[t].pc = "save_io" /\ tasks'[t].pc # "save_io"

C19_DurableFileWhole ==
    /\ [](file.state = "complete")
    /\ [][file' # file => tmp.state = "complete" /\ file' = tmp /\ tmp' = NoFile]_vars
    /\ [][tmp' # tmp /\ tmp' # NoFile => file' = file]_vars

\* the process was killed while a save had cut the temporary file to nothing;
\* the data file still holds the document of before, not the present state
C19_Witness ==
    /\ running = Crashed
    /\ tmp.state = "partial"
    /\ file.state = "complete"
    /\ file # Written(Snapshot(portfolios, objs, user_settings, watchlists, user_stats))
    /\ \E t \in Tasks : tasks[t].pc = "save_open"

\* C20: saves are serialized: at most one save at a time is at work on the
\* temporary file and the rename, and it is the one that holds data_lock;
\* and every save that waits for the lock gets its turn, as long as the
\* process lives.
C20_SavesSerialized ==
    /\ [](/\ Cardinality({t \in Tasks : tasks[t].pc \in SaveStages}) <= 1
          /\ \A t \in Tasks : tasks[t].pc \in SaveStages => data_lock = t)
    /\ \A t \in Tasks :
          (tasks[t].pc = "save_wait")
              ~> (tasks[t].pc \in SaveStages \/ running = Crashed)

\* one save writes the temporary file while the save of another command waits
C20_Witness ==
    \E t, x \in Tasks :
        /\ tasks[t].pc = "save_open"
        /\ tmp.state = "partial"
        /\ tasks[x].pc = "save_wait"
        /\ data_lock = t
        /\ running # Crashed

\* C21: when the write of a save fails, the failure stays inside the save:
\* the step that fails changes neither the portfolios and settings in memory
\* nor the data file; the save then releases the lock and its handler runs on
\* as after a save that succeeded, with the outcome it had; and the document a
\* later save renames into place is the state in memory at the time it was
\* written.
C21_SaveFailed(t) ==
    /\ tasks[t].pc \in SaveStages
    /\ tasks[t].saved # "failed"
    /\ tasks'[t].saved = "failed"

C21_Witness ==
    \E t, x \in Tasks :
        /\ tasks[t].kind = "fund" /\ tasks[t].res = "ok" /\ tasks[t].pc = "done"
        /\ tasks[t].saved = "failed"
        /\ t < x /\ tasks[x].pc = "done" /\ tasks[x].saved = "ok"
        /\ tasks[x].user # tasks[t].user
        /\ Live(tasks[t].user) = tasks[t].post
        /\ tasks[t].post # tasks[t].pre
        /\ data_lock = 0
        /\ file = Written(Snapshot(portfolios, objs, user_settings, watchlists, user_stats))

\* C22: every command that changes a portfolio starts its save after the
\* change is made, so once every command has finished, the writes having
\* succeeded, the portfolios of the document in the data file are the
\* portfolios in memory.
C22_FileFollowsMemory ==
    Quiescent => file = Written(Snapshot(portfolios, objs, user_settings, watchlists, user_stats))

\* C23: load_data finding no file leaves the four dictionaries empty and the
\* bot starts without an error; finding a document that lacks some of the
\* collections portfolios, watchlists, user_settings and user_stats, it leaves
\* each absent one empty and loads each present one in full, under the int
\* keys of the users.
C23_Empty(c) ==
    \A u \in Users :
        CASE c = "portfolios" -> loaded[c][u] = Absent
          [] c = "watchlists" -> loaded[c][u] = <<>>
          [] c = "user_settings" -> IsNone(loaded[c][u])
          [] c = "user_stats" -> loaded[c][u] = 0

C23_LoadTolerant ==
    /\ (\A t \in Tasks : tasks[t].saved = "none")
          => /\ file.state = "missing" => \A c \in Collections : C23_Empty(c)
             /\ file.state = "complete"
                   => \A c \in Collections :
                         IF c \in DOMAIN file.doc THEN loaded[c] = SavedData[c]
                         ELSE C23_Empty(c)
    /\ (\A t \in Tasks : tasks[t].pc = "new")
          => /\ running = 0
             /\ \A u \in Users : Live(u) = loaded.portfolios[u]
             /\ watchlists = loaded.watchlists
             /\ user_settings = loaded.user_settings
             /\ user_stats = loaded.user_stats

\* the bot has started on a document of a version that knew portfolios and
\* settings only: user 1 has the saved portfolio and setting, no watchlist
\* and no statistics
C23_Witness ==
    /\ \A t \in Tasks : tasks[t].pc = "new"
    /\ file.state = "complete"
    /\ DOMAIN file.doc = {"portfolios", "user_settings"}
    /\ Live(1) = Holding
    /\ user_settings[1] = R(5, 1)
    /\ watchlists[1] = <<>>
    /\ user_stats[1] = 0

\* C24: a provider request of get_token_info that fails (an exception, a
\* status other than 200, JSON that cannot be used, a timeout) neither ends
\* the chain nor raises out of get_token_info: the call goes on to a later
\* request, and returns only after the last provider or with a price already
\* at hand; a call that returns without a price has asked all four providers.
C24_Failed(t) ==
    \/ tasks[t].pc = "rate" /\ world.rate.k \in {"exc", "non200"}
    \/ tasks[t].pc = "rate2" /\ world.rate2.k = "fail"
    \/ tasks[t].pc = "pump" /\ world.pump.k \in {"fail", "partial_pre", "partial_post"}
    \/ tasks[t].pc = "dex" /\ world.dex.k \in {"fail", "partial"}
    \/ tasks[t].pc = "jup" /\ world.jup.k = "fail"
    \/ tasks[t].pc = "bird" /\ world.bird.k = "fail"

C24_Later(p) ==
    CASE p = "rate" -> {"rate2", "pump"}
      [] p = "rate2" -> {"pump"}
      [] p = "pump" -> {"dex"}
      [] p = "dex" -> {"jup"}
      [] p = "jup" -> {"bird"}
      [] p = "bird" -> {}

C25_UnavailableIsNone ==
    /\ \A t \in Tasks :
          tasks[t].pc \in {"apply", "done"} => tasks[t].info.price # Zero
    /\ \A k \in Tokens : price_cache[k].valid => price_cache[k].data.price # Zero

\* C26: the equity the leaderboard computes for a user is the balance plus,
\* for each position, amount times the price the quote of its token has, or
\* times the average cost of the position when that quote has no price; what
\* one token contributes depends on the quote of that token alone.
C26_Part(pf, k, info) ==
    IF ~Held(pf, k) THEN Zero
    ELSE RMul(pf.positions[k].amount,
              IF Truthy(info.price) THEN info.price ELSE pf.positions[k].avg_price)

C26_LeaderboardEquity ==
    [][\A t \in Tasks :
          tasks[t].pc = "gather" /\ tasks'[t].pc = "done"
              => \A u \in Users :
                    portfolios[u] # 0
                        => tasks'[t].equity[u] =
                              RAdd(RAdd(Live(u).balance,
                                        C26_Part(Live(u), "T1", tasks[t].infos["T1"])),
                                   C26_Part(Live(u), "T2", tasks[t].infos["T2"]))]_vars

\* a leaderboard run got a price of 0.002 for T1 and none for T2: the user
\* with 10 SOL, 5000 T1 and 100 T2 bought at 0.05 is listed with 25 SOL
C26_Witness ==
    \E t \in Tasks :
        /\ tasks[t].kind = "leaderboard"
        /\ tasks[t].pc = "done"
        /\ tasks[t].infos["T1"].price = R(1, 500)
        /\ IsNone(tasks[t].infos["T2"].price)
        /\ Live(1) = TwoTokens
        /\ tasks[t].equity[1] = R(25, 1)

\* C27: the equity stats_command computes for a portfolio from the quotes it
\* got is the equity the leaderboard computes for that portfolio from the
\* same quotes, a position without a price valued at its average cost.
C27_StatsAsLeaderboard ==
    \A t \in Tasks :
        tasks[t].kind = "stats" /\ tasks[t].pc = "done" /\ tasks[t].res = "ok"
            => tasks[t].equity[tasks[t].user] =
                  LeaderEquity(tasks[t].pre, TokenPrices(tasks[t].infos))

C29_CreationIdempotent ==
    [][\A t \in Tasks :
          tasks[t].pc = "new" /\ tasks'[t].kind \in {"start", "buy"}
              => /\ IF portfolios[tasks'[t].user] = 0
                    THEN LiveOf(portfolios', objs', tasks'[t].user) =
                            [balance |-> R(starting_balance, 1),
                             positions |-> EmptyPositions, history |-> <<>>]
                    ELSE /\ portfolios' = portfolios
                         /\ objs' = objs
                 /\ \A u \in Users \ {tasks'[t].user} :
                       LiveOf(portfolios', objs', u) = Live(u)]_vars

\* two /start of a user who had no portfolio: the first created it, the
\* second found it, and the user has the one portfolio, fresh
C29_Witness ==
    \E t, x \in Tasks :
        /\ tasks[t].kind = "start" /\ tasks[t].pc = "done" /\ tasks[t].res = "ok"
        /\ tasks[x].kind = "start" /\ tasks[x].pc = "done" /\ tasks[x].res = "exists"
        /\ tasks[x].user = tasks[t].user
        /\ tasks[t].pre = Absent
        /\ Live(tasks[t].user) = FreshPortfolio
        /\ Len(objs) = 1

\* C30: between resets the history of a user only grows at its end: a step
\* that completes a buy or a sell of the user with success appends exactly one
\* trade, a command that fails appends nothing, and no step other than a
\* reset of the user removes or changes an entry.
C30_Outcome(t, u) ==
    /\ tasks'[t].user = u
    /\ tasks'[t].kind \in BuyKinds \cup SellKinds
    /\ tasks[t].res = "none"
    /\ tasks'[t].res # "none"

C30_HistoryAppendOnly ==
    [][\A u \in Users :
          LET h == Live(u).history
              g == LiveOf(portfolios', objs', u).history
          IN  /\ (\E t \in Tasks : tasks[t].pc = "new" /\ tasks'[t].kind = "reset"
                                   /\ tasks'[t].user = u)
                 \/ (Len(g) >= Len(h) /\ SubSeq(g, 1, Len(h)) = h)
              /\ \A t \in Tasks :
                    C30_Outcome(t, u)
                        => IF tasks'[t].res = "ok"
                           THEN /\ Len(g) = Len(h) + 1
                                /\ SubSeq(g, 1, Len(h)) = h
                                /\ g[Len(g)].token = tasks[t].token
                                /\ g[Len(g)].type =
                                      IF tasks[t].kind \in BuyKinds THEN "BUY" ELSE "SELL"
                           ELSE g = h]_vars

\* C31: a step of a command of one user (start, buy, sell, fund, reset and
\* the buttons) leaves the portfolio of every other user as it is, balance,
\* positions and history, in every interleaving: whenever the portfolio of a
\* user changes, the step belongs to a command of that user.
C31_UsersIndependent ==
    [][\A u \in Users :
          LiveOf(portfolios', objs', u) # Live(u)
              => /\ \E t \in Tasks : tasks'[t] # tasks[t]
                 /\ \A t \in Tasks : tasks'[t] # tasks[t] => tasks'[t].user = u]_vars

\* user 1 sold while a buy of user 2 was waiting for its quote, and the buy
\* was applied afterwards: each portfolio shows the trade of its user alone
C31_Witness ==
    \E t, x \in Tasks :
        /\ tasks[t].user = 1 /\ tasks[t].kind = "sell" /\ tasks[t].res = "ok"
        /\ tasks[x].user = 2 /\ tasks[x].kind \in BuyKinds /\ tasks[x].res = "ok"
        /\ tasks[x].q_start <= tasks[t].q_start
        /\ Len(Live(1).history) = 2 /\ Live(1).history[2].type = "SELL"
        /\ Len(Live(2).history) = 1 /\ Live(2).history[1].type = "BUY"
        /\ Live(2).balance = RSub(R(starting_balance, 1), tasks[x].amount)

\* C32: when the request to the primary SOL-rate source fails, by an
\* exception, a timeout or a status other than 200, get_token_info asks the
\* fallback rate source, and the rate of the call is 0 only if both failed.
C32_RateFallback ==
    /\ [][\A t \in Tasks :
            /\ tasks[t].pc = "rate"
            /\ tasks'[t].pc # "rate"
            /\ world.rate.k # "ok"
            => tasks'[t].pc = "rate2"]_vars
    /\ [](\A t \in Tasks :
            /\ tasks[t].pc \in {"pump", "dex", "jup", "bird"}
            /\ tasks[t].q.sol = Zero
            => "rate2" \in tasks[t].q_reqs)

\* C33: the answer of Pump.fun decides the quote exactly when it is for a
\* curve that is not complete with a positive virtual token reserve: the call
\* then returns the price (v_sol / 1e9) / (v_token / 1e6) under the name of the
\* bonding curve and sends no further request; otherwise nothing of the
\* answer is kept and the next request goes to DexScreener.
C33_PumpDecides ==
    [][\A t \in Tasks :
          tasks[t].pc = "pump" /\ tasks'[t].pc # "pump"
              => IF world.pump.k \notin {"fail", "complete"} /\ world.pump.v_token > 0
                 THEN /\ tasks'[t].pc = "apply"
                      /\ tasks'[t].info.price =
                            PumpPrice(world.pump.v_sol, world.pump.v_token)
                      /\ tasks'[t].info.dex_name = "Pump.fun (Bonding Curve)"
                      /\ tasks'[t].q_reqs = tasks[t].q_reqs
                 ELSE /\ tasks'[t].pc = "dex"
                      /\ tasks'[t].q.info = tasks[t].q.info]_vars

\* C34: of the pairs DexScreener answers with, get_token_info takes the one
\* whose liquidity in USD is highest, a pair without liquidity counting 0, and
\* of several with the highest liquidity the first in the answer; price_usd
\* is that pair's priceUsd, and price is priceUsd divided by the SOL rate
\* whenever a rate was obtained.
C34_Liquidity(pair) == IF pair.liq = NoneR THEN Zero ELSE pair.liq

C34_Chosen(pairs) ==
    CHOOSE i \in 1..Len(pairs) :
        /\ \A j \in 1..Len(pairs) : RLe(C34_Liquidity(pairs[j]), C34_Liquidity(pairs[i]))
        /\ \A j \in 1..(i - 1) : RLt(C34_Liquidity(pairs[j]), C34_Liquidity(pairs[i]))

C35_Next(p) ==
    CASE p = "rate" -> {"rate2", "pump"}
      [] p = "rate2" -> {"pump"}
      [] p = "pump" -> {"dex"}
      [] p = "dex" -> {"jup"}
      [] p = "jup" -> {"bird"}
      [] p = "bird" -> {}

C35_FixedOrder ==
    [][\A t \in Tasks :
          tasks'[t].pc # tasks[t].pc /\ tasks'[t].pc \in Providers
              => /\ IF tasks[t].pc \in Providers
                    THEN /\ tasks'[t].pc \in C35_Next(tasks[t].pc)
                         /\ tasks'[t].pc \notin tasks[t].q_reqs
                    ELSE tasks'[t].pc = "rate" /\ tasks[t].q_reqs = {}
                 /\ tasks'[t].q_reqs = tasks[t].q_reqs \cup {tasks'[t].pc}
                 /\ tasks'[t].pc \in {"jup", "bird"} => ~Truthy(tasks'[t].q.info.price)
                 /\ \A u \in Tasks \ {t} : tasks'[u].pc = tasks[u].pc]_vars

\* a call went through the whole chain without the fallback of the rate and
\* took its price from Birdeye
C35_Witness ==
    \E t \in Tasks :
        /\ tasks[t].pc = "done"
        /\ tasks[t].q_reqs = Providers \ {"rate2"}
        /\ tasks[t].q.src = "bird"
        /\ world.jup.k = "fail"
        /\ moves = 0

\* C36: get_token_info returns the cached quote of a token only while the
\* entry is less than 10 seconds old; from 10 seconds on it sends the requests
\* again, and when it returns the entry of the token holds the quote it
\* returns and the time of the return.
C36_FreshCache ==
    [][\A t \in Tasks :
          /\ (tasks[t].pc = "new" /\ tasks'[t].pc # "new" /\ tasks'[t].q_hit
                 => /\ price_cache[tasks'[t].token].valid
                    /\ now - price_cache[tasks'[t].token].timestamp < 10
                    /\ tasks'[t].info = price_cache[tasks'[t].token].data)
          /\ ((/\ tasks[t].pc = "new" /\ tasks'[t].pc \in Providers \cup {"apply"}
               /\ price_cache[tasks'[t].token].valid
               /\ now - price_cache[tasks'[t].token].timestamp >= 10)
                 => tasks'[t].pc = "rate" /\ ~tasks'[t].q_hit)
          /\ ((/\ tasks[t].pc \in Providers /\ tasks'[t].pc = "apply"
               /\ price_cache[tasks[t].token].valid
               /\ tasks[t].q_start - price_cache[tasks[t].token].timestamp >= 10)
                 => price_cache'[tasks[t].token] =
                        [valid |-> TRUE, timestamp |-> now, data |-> tasks'[t].info])]_vars

\* C37: a buy or a sell changes the balance, the position and the history of
\* its portfolio in one step between two suspension points: no state that
\* another task can see has the balance or the positions of a trade without
\* its history entry.
C37_TradeAtomic ==
    [][\A t \in Tasks :
          /\ tasks[t].pc = "apply" /\ tasks'[t].pc # "apply"
          /\ tasks[t].kind \in BuyKinds \cup SellKinds
          => LET before == objs[tasks[t].pf]
                 after == objs'[tasks[t].pf]
             IN  after.balance # before.balance \/ after.positions # before.positions
                    => Len(after.history) = Len(before.history) + 1]_vars

\* C38: the document a save writes is the state in memory (portfolios,
\* watchlists, settings, statistics) of one instant of that save, also when
\* other commands change the dictionaries while the thread serializes them:
\* json.dump is never ended by such a change, and what it has written is the
\* state as it was when it began or as it is when it ends, never a part of
\* each.
C38_ConsistentSnapshot ==
    [][\A t \in Tasks :
          tasks[t].pc = "save_dump" /\ tasks'[t].pc # "save_dump"
              => /\ tasks'[t].saved # "resized"
                 /\ tasks'[t].pc = "save_written"
                       => \/ tmp' = Written(tasks[t].dumped)
                          \/ tmp' = Written(Snapshot(portfolios, objs, user_settings,
                                                     watchlists, user_stats))]_vars

\* C39: in every state the balance of every user is the starting balance plus
\* the amounts of the /fund commands accepted, minus the value_sol of the BUY
\* trades of the history, plus the value_sol of its SELL trades, all since
\* the portfolio was created or last reset; and every trade reported as done
\* was made in the portfolio its user then had.
RECURSIVE C39_Trades(_, _)
C39_Trades(history, i) ==
    IF i > Len(history) THEN Zero
    ELSE RAdd(IF history[i].type = "BUY" THEN RSub(Zero, history[i].value_sol)
              ELSE history[i].value_sol,
              C39_Trades(history, i + 1))

RECURSIVE C39_Funds(_)
C39_Funds(funds) ==
    IF funds = {} THEN Zero
    ELSE LET t == CHOOSE x \in funds : TRUE
         IN  RAdd(tasks[t].amount, C39_Funds(funds \ {t}))

C39_Accounting ==
    /\ \A u \in Users :
          portfolios[u] # 0
              => Live(u).balance =
                    RAdd(R(starting_balance, 1),
                         RAdd(C39_Funds({t \in Tasks : /\ tasks[t].kind = "fund"
                                                       /\ tasks[t].res = "ok"
                                                       /\ tasks[t].pf = portfolios[u]}),
                              C39_Trades(Live(u).history, 1)))
    /\ \A t \in Tasks :
          tasks[t].kind \in BuyKinds \cup SellKinds /\ tasks[t].res = "ok" => tasks[t].live

\* C40: a sell that leaves the position in the portfolio changes the amount
\* of the position and nothing else of it: the average cost and the symbol
\* stay as the buys left them, and so does every other position.
C40_SellKeepsCostBasis ==
    [][\A t \in Tasks :
          /\ tasks[t].kind \in SellKinds
          /\ tasks[t].pc = "apply" /\ tasks'[t].res = "ok"
          => LET before == objs[tasks[t].pf].positions
                 after == objs'[tasks[t].pf].positions
                 token == tasks[t].token
             IN  /\ \A k \in DOMAIN before \ {token} : k \in DOMAIN after /\ after[k] = before[k]
                 /\ DOMAIN after \subseteq DOMAIN before
                 /\ token \in DOMAIN after
                       => /\ after[token].avg_price = before[token].avg_price
                          /\ after[token].symbol = before[token].symbol
                          /\ after[token].amount =
                                RSub(before[token].amount, tasks[t].amount)]_vars

\* 3000 of the 5000 tokens bought at 0.001 were sold at another price: the
\* 2000 left are still held at 0.001
C40_Witness ==
    \E t \in Tasks :
        /\ tasks[t].kind = "sell" /\ tasks[t].res = "ok" /\ tasks[t].live
        /\ tasks[t].amount = R(3000, 1)
        /\ tasks[t].info.price # R(1, 1000)
        /\ Held(tasks[t].post, "T1")
        /\ tasks[t].post.positions["T1"] =
              [amount |-> R(2000, 1), avg_price |-> R(1, 1000), symbol |-> "TOK"]

====
